---- MODULE Spec2Model ----
(***************************************************************************)
(* A model of package dsx (src/dsx.go): the fluent QueryBuilder in front   *)
(* of Cloud Datastore, its pagination-mode flags, the execution methods    *)
(* and the chunked Delete.                                                 *)
(*                                                                         *)
(* The Datastore client is the environment.  It is modelled as a store of  *)
(* entities of one kind, kept in key order: store[i] is the entity whose   *)
(* key name is KeyName(i), with a "live" flag that is FALSE once the       *)
(* entity has been deleted.  A backend call fails when the caller of the   *)
(* action says so (an input of the action), which covers backend errors    *)
(* and context cancellation alike.                                         *)
(***************************************************************************)
EXTENDS Integers, Sequences, FiniteSets, TLC

VARIABLES
    qb,      \* the QueryBuilder the caller is configuring
    store,   \* the entities of the kind held by the Datastore backend
    ret,     \* what the most recent call returned (NoRet: the builder, or
             \* nothing yet because the call is still under way)
    calls,   \* the backend calls the most recent call has issued so far
    pager,   \* the caller-side variables of the README's pagination example
    procs,   \* the builder calls running concurrently on the builder
    run      \* the locals of the call of SelectWithCursor or Delete that is
             \* between two waits for the backend (NoRun: none is)

vars == <<qb, store, ret, calls, pager, procs, run>>

(***************************************************************************)
(* Bounds of the model.                                                    *)
(***************************************************************************)
MaxFilters == 1     \* filters accumulated on one builder
MaxOrders == 1      \* sort orders accumulated on one builder
MaxLimit == 1       \* largest argument given to WithLimit
MaxOffset == 1      \* largest argument given to WithOffset
MaxStore == 2       \* entities in the store of the builder specification
MaxPageStore == 4   \* entities in the store of the pagination specification
MaxPages == 3       \* pages fetched by the pagination example
MaxPageLimit == 2   \* largest limit of the pagination example
MaxChunks == 1      \* full chunks in the store of the Delete specification
MaxAnd == 2         \* filters accumulated in the filter specification
MaxItems == 2       \* entries of the small maps given to UpsertMulti
NumProcs == 2       \* builder calls running concurrently on one builder

(***************************************************************************)
(* Program constants.                                                      *)
(***************************************************************************)
ChunkSize == 500
PutMultiLimit == 500     \* entities the backend accepts in one PutMulti
FieldKey == "__key__"
OpEqual == "="
OpGreaterEqual == ">="
OpGreater == ">"
OpLessEqual == "<="
OpLess == "<"
OpIn == "in"
OpNotIn == "not in"
ErrUseCursor == "query defined to use cursor"
ErrUseOffset == "query defined to use offset instead of cursor"
ErrCountMissing == "count result not found"
ErrCountType == "unexpected count type: int64"

NoErr == ""                     \* a nil error
\* The backend's answer to a PutMulti of more than PutMultiLimit entities.
ErrTooMany == "cannot write more than 500 entities in a single call"
BackendErrors == {"unavailable", "context canceled"}
Kind == "User"

(***************************************************************************)
(* Values.  A Go interface{} value is a tagged record, so that values of   *)
(* different dynamic types can be told apart without comparing payloads.   *)
(***************************************************************************)
StrVal(s) == [t |-> "string", v |-> s]
IntVal(n) == [t |-> "int", v |-> n]
KeyVal(k) == [t |-> "key", v |-> k]
ListVal(s) == [t |-> "list", v |-> s]

\* datastore.NameKey(kind, name, nil)
NameKey(kind, name) == [kind |-> kind, name |-> name]

\* The key name of the i-th entity of the store (the store is in key order).
KeyName(i) == "k" \o ToString(i)

Statuses == <<"active", "inactive">>
\* The strings that property values and filter values range over, in order.
StringOrder == <<"", "active", "inactive", "pending">>

Entity(status, age) == [live |-> TRUE, status |-> status, age |-> age]
Tombstone == [live |-> FALSE, status |-> "", age |-> 0]
\* The zero value of the entity type T.
ZeroEntity == [status |-> "", age |-> 0]
\* The value of type T loaded from a stored entity.
Load(e) == [status |-> e.status, age |-> e.age]

\* A nil slice / a non-nil slice of T.
NilSlice == [isNil |-> TRUE, items |-> <<>>]
Slice(s) == [isNil |-> FALSE, items |-> s]
\* A nil *T / a pointer to a T.
NilPtr == [isNil |-> TRUE, val |-> ZeroEntity]
Ptr(e) == [isNil |-> FALSE, val |-> e]

(***************************************************************************)
(* Cursors.  A datastore.Cursor is a position in the result order of a     *)
(* query: the number of results that lie before it.  NoCursor is the zero  *)
(* Cursor.  Cursor.String() encodes it and DecodeCursor parses the         *)
(* encoding back, failing on any other string.                             *)
(***************************************************************************)
NoCursor == -1
CursorSpace == MaxStore + MaxPageStore + 2
CursorString(c) == IF c = NoCursor THEN "" ELSE "cur:" \o ToString(c)
DecodeCursor(s) ==
    IF s = "" THEN [ok |-> TRUE, c |-> NoCursor]
    ELSE IF \E p \in 0..CursorSpace : CursorString(p) = s
         THEN [ok |-> TRUE, c |-> CHOOSE p \in 0..CursorSpace : CursorString(p) = s]
         ELSE [ok |-> FALSE, c |-> NoCursor]

(***************************************************************************)
(* datastore.Query: the derivative-query methods the builder uses.         *)
(***************************************************************************)
NoLimit == -1
NoKey == NameKey("", "")

NewQuery(kind) ==
    [kind |-> kind, filter |-> <<>>, order |-> <<>>, limit |-> NoLimit,
     offset |-> 0, start |-> NoCursor, keysOnly |-> FALSE, distinct |-> FALSE,
     ancestor |-> NoKey]

QDistinct(q) == [q EXCEPT !.distinct = TRUE]
QLimit(q, n) == [q EXCEPT !.limit = n]
QOffset(q, n) == [q EXCEPT !.offset = n]
QOrder(q, fieldName) == [q EXCEPT !.order = Append(@, fieldName)]
QStart(q, c) == [q EXCEPT !.start = c]
QFilterField(q, fieldName, operator, value) ==
    [q EXCEPT !.filter = Append(@, [field |-> fieldName, op |-> operator, value |-> value])]
QAncestor(q, key) == [q EXCEPT !.ancestor = key]
QKeysOnly(q) == [q EXCEPT !.keysOnly = TRUE]

(***************************************************************************)
(* The builder.  Each method is an operator from the builder before the    *)
(* call (and the arguments) to the builder after it.                       *)
(***************************************************************************)
\* Query that starts the builder in offset mode.
Query_OffsetMode(kind) ==
    [query |-> NewQuery(kind), kind |-> kind, limit |-> 0,
     usingOffset |-> TRUE, usingCursor |-> FALSE]

Query(kind) ==
    [query |-> NewQuery(kind), kind |-> kind, limit |-> 0,
     usingOffset |-> FALSE, usingCursor |-> FALSE]

WithDistinct(b) == [b EXCEPT !.query = QDistinct(b.query)]

\* WithLimit with the guard "limit >= 0".
WithLimit_AcceptsZero(b, limit) ==
    IF limit >= 0
    THEN [b EXCEPT !.query = QLimit(b.query, limit), !.limit = limit]
    ELSE b

WithLimit(b, limit) ==
    IF limit > 0
    THEN [b EXCEPT !.query = QLimit(b.query, limit), !.limit = limit]
    ELSE b

\* WithOffset that applies the offset without marking the builder.
WithOffset_NoFlag(b, offset) ==
    IF offset > 0
    THEN [b EXCEPT !.query = QOffset(b.query, offset)]
    ELSE b

\* WithOffset that switches the builder from cursor to offset pagination.
WithOffset_ClearsCursor(b, offset) ==
    IF offset > 0
    THEN [b EXCEPT !.query = QOffset(b.query, offset), !.usingOffset = TRUE,
                   !.usingCursor = FALSE]
    ELSE b

\* WithOffset that takes an offset of zero or less as "no offset" and leaves
\* offset mode.
WithOffset_ZeroResets(b, offset) ==
    IF offset > 0
    THEN [b EXCEPT !.query = QOffset(b.query, offset), !.usingOffset = TRUE]
    ELSE [b EXCEPT !.query = QOffset(b.query, 0), !.usingOffset = FALSE]

WithOffset(b, offset) ==
    IF offset > 0
    THEN [b EXCEPT !.query = QOffset(b.query, offset), !.usingOffset = TRUE]
    ELSE b

WithOrder(b, field) == [b EXCEPT !.query = QOrder(b.query, field)]

WithOrderDesc(b, field) == [b EXCEPT !.query = QOrder(b.query, "-" \o field)]

\* WithCursor that marks the builder but does not apply the start position.
WithCursor_NoStart(b, cursor) ==
    IF cursor # ""
    THEN LET d == DecodeCursor(cursor)
         IN  IF d.ok THEN [b EXCEPT !.usingCursor = TRUE] ELSE b
    ELSE b

\* WithCursor that marks the builder whether or not the token decodes.
WithCursor_MarksOnFailure(b, cursor) ==
    IF cursor # ""
    THEN LET d == DecodeCursor(cursor)
         IN  IF d.ok
             THEN [b EXCEPT !.query = QStart(b.query, d.c), !.usingCursor = TRUE]
             ELSE [b EXCEPT !.usingCursor = TRUE]
    ELSE b

\* WithCursor that switches the builder to cursor mode, leaving offset mode.
WithCursor_ClearsOffset(b, cursor) ==
    IF cursor # ""
    THEN LET d == DecodeCursor(cursor)
         IN  IF d.ok
             THEN [b EXCEPT !.query = QStart(b.query, d.c), !.usingCursor = TRUE,
                            !.usingOffset = FALSE]
             ELSE b
    ELSE b

WithCursor(b, cursor) ==
    IF cursor # ""
    THEN LET d == DecodeCursor(cursor)
         IN  IF d.ok
             THEN [b EXCEPT !.query = QStart(b.query, d.c), !.usingCursor = TRUE]
             ELSE b
    ELSE b

\* WithFilter that hands a non-string value for the key field to the query.
WithFilter_KeepsNonString(b, key, operator, value) ==
    IF key = FieldKey /\ value.t = "string"
    THEN [b EXCEPT !.query =
             QFilterField(b.query, key, operator, KeyVal(NameKey(b.kind, value.v)))]
    ELSE [b EXCEPT !.query = QFilterField(b.query, key, operator, value)]

\* WithFilter that replaces the filters set before instead of adding to them.
WithFilter_Replaces(b, key, operator, value) ==
    IF key = FieldKey
    THEN IF value.t = "string"
         THEN [b EXCEPT !.query =
                  QFilterField([b.query EXCEPT !.filter = <<>>], key, operator,
                               KeyVal(NameKey(b.kind, value.v)))]
         ELSE b
    ELSE [b EXCEPT !.query =
             QFilterField([b.query EXCEPT !.filter = <<>>], key, operator, value)]

WithFilter(b, key, operator, value) ==
    IF key = FieldKey
    THEN IF value.t = "string"
         THEN [b EXCEPT !.query =
                  QFilterField(b.query, key, operator, KeyVal(NameKey(b.kind, value.v)))]
         ELSE b
    ELSE [b EXCEPT !.query = QFilterField(b.query, key, operator, value)]

WithAncestorKey(b, ancestorKey) ==
    IF ancestorKey # NoKey
    THEN [b EXCEPT !.query = QAncestor(b.query, ancestorKey)]
    ELSE b

KeysOnly(b) == [b EXCEPT !.query = QKeysOnly(b.query)]

(***************************************************************************)
(* The backend: which entities a query matches, and in which order.        *)
(***************************************************************************)
Fields == {"status", "age", FieldKey}

RECURSIVE IndexIn(_, _, _)
\* The index of x in the sequence s at or after position i (0 if absent).
IndexIn(s, x, i) ==
    IF i > Len(s) THEN 0
    ELSE IF s[i] = x THEN i
    ELSE IndexIn(s, x, i + 1)

\* The position of a key name in key order.
KeyIndex(name, n) ==
    IF \E i \in 1..n : KeyName(i) = name
    THEN CHOOSE i \in 1..n : KeyName(i) = name
    ELSE n + 1

\* The value of a property of the i-th entity of the store st.
PropOf(st, i, field) ==
    IF field = FieldKey THEN KeyVal(NameKey(Kind, KeyName(i)))
    ELSE IF field = "status" THEN StrVal(st[i].status)
    ELSE IF field = "age" THEN IntVal(st[i].age)
    ELSE [t |-> "none", v |-> 0]

Same(a, b) ==
    /\ a.t = b.t
    /\ a.t # "none"
    /\ a.v = b.v

Less(a, b, n) ==
    /\ a.t = b.t
    /\ IF a.t = "int" THEN a.v < b.v
       ELSE IF a.t = "string"
            THEN IndexIn(StringOrder, a.v, 1) < IndexIn(StringOrder, b.v, 1)
       ELSE IF a.t = "key"
            THEN /\ a.v.kind = b.v.kind
                 /\ KeyIndex(a.v.name, n) < KeyIndex(b.v.name, n)
       ELSE FALSE

\* Whether the i-th entity of st satisfies the property filter f.
Matches(st, i, f) ==
    LET pv == PropOf(st, i, f.field)
        n == Len(st)
    IN  IF f.op = OpEqual THEN Same(pv, f.value)
        ELSE IF f.op = OpLess THEN Less(pv, f.value, n)
        ELSE IF f.op = OpGreater THEN Less(f.value, pv, n)
        ELSE IF f.op = OpLessEqual THEN Less(pv, f.value, n) \/ Same(pv, f.value)
        ELSE IF f.op = OpGreaterEqual THEN Less(f.value, pv, n) \/ Same(pv, f.value)
        ELSE IF f.op = OpIn
             THEN /\ f.value.t = "list"
                  /\ \E k \in 1..Len(f.value.v) : Same(pv, f.value.v[k])
        ELSE IF f.op = OpNotIn
             THEN /\ f.value.t = "list"
                  /\ pv.t # "none"
                  /\ \A k \in 1..Len(f.value.v) : ~Same(pv, f.value.v[k])
        ELSE FALSE

\* Whether the i-th entity of st satisfies every filter of q (AND).
MatchesAll(st, i, q) ==
    /\ st[i].live
    /\ q.ancestor = NoKey \/ q.ancestor = NameKey(Kind, KeyName(i))
    /\ \A k \in 1..Len(q.filter) : Matches(st, i, q.filter[k])

\* A sort order is a field name, with a leading "-" for descending.
OrderDesc(o) == \E f \in Fields : o = "-" \o f
OrderField(o) ==
    IF OrderDesc(o) THEN CHOOSE f \in Fields : o = "-" \o f ELSE o

RECURSIVE Before(_, _, _, _, _)
\* Whether entity i comes before entity j under the orders from the k-th on;
\* ties are broken by key.
Before(st, i, j, order, k) ==
    IF k > Len(order) THEN i < j
    ELSE LET f == OrderField(order[k])
             a == PropOf(st, i, f)
             b == PropOf(st, j, f)
         IN  IF Less(a, b, Len(st)) THEN ~OrderDesc(order[k])
             ELSE IF Less(b, a, Len(st)) THEN OrderDesc(order[k])
             ELSE Before(st, i, j, order, k + 1)

\* The value of F at v, with v worked out once: "let x be v in F(x)".
Bind(v, F(_)) == CHOOSE r \in {F(x) : x \in {v}} : TRUE

RECURSIVE InsertSorted(_, _, _, _)
InsertSorted(st, s, x, order) ==
    IF s = <<>> THEN <<x>>
    ELSE IF Before(st, x, Head(s), order, 1) THEN <<x>> \o s
    ELSE Bind(InsertSorted(st, Tail(s), x, order), LAMBDA rest : <<Head(s)>> \o rest)

RECURSIVE SortKeys(_, _, _)
SortKeys(st, s, order) ==
    IF s = <<>> THEN <<>>
    ELSE Bind(SortKeys(st, Tail(s), order),
              LAMBDA sorted : InsertSorted(st, sorted, Head(s), order))

Min(a, b) == IF a < b THEN a ELSE b
Drop(s, n) == SubSeq(s, Min(n, Len(s)) + 1, Len(s))
Take(s, n) == SubSeq(s, 1, Min(n, Len(s)))

\* The indexes of the entities q matches, in result order, before the start
\* cursor, the offset and the limit are applied.
Matching(st, q) ==
    Bind(SelectSeq([i \in 1..Len(st) |-> i], LAMBDA i : MatchesAll(st, i, q)),
         LAMBDA hit : IF q.order = <<>> THEN hit ELSE SortKeys(st, hit, q.order))

StartPos(q) == IF q.start = NoCursor THEN 0 ELSE q.start

\* What is left of the matching rows m after the start cursor, the offset and
\* the limit of q.
Window(m, q) ==
    Bind(Drop(m, StartPos(q)), LAMBDA afterStart :
    Bind(Drop(afterStart, q.offset), LAMBDA afterOffset :
         IF q.limit >= 0 THEN Take(afterOffset, q.limit) ELSE afterOffset))

\* The indexes of the entities a run of q yields, in order.
RunQuery(st, q) == Bind(Matching(st, q), LAMBDA m : Window(m, q))

(***************************************************************************)
(* The backend calls of datastore.Client, and what an execution method     *)
(* hands back to its caller.                                               *)
(***************************************************************************)
Call(op, keys) == [op |-> op, keys |-> keys]

Ret(op, result, entity, cursor, count, err) ==
    [op |-> op, result |-> result, entity |-> entity, cursor |-> cursor,
     count |-> count, err |-> err]

NoRet == Ret("none", NilSlice, NilPtr, "", 0, NoErr)

\* The entities of type T loaded for the rows of a run.
Entities(st, rows) == [k \in 1..Len(rows) |-> Load(st[rows[k]])]

\* client.GetAll(ctx, q, dst): the keys of the run and, unless the query is
\* keys-only, the entities appended to dst; fail is the error of the call.
GetAll(st, q, fail) ==
    IF fail # NoErr
    THEN [keys |-> <<>>, result |-> NilSlice, err |-> fail]
    ELSE Bind(RunQuery(st, q), LAMBDA rows :
              [keys |-> rows,
               result |-> IF q.keysOnly \/ rows = <<>>
                          THEN NilSlice
                          ELSE Slice(Entities(st, rows)),
               err |-> NoErr])

\* client.DeleteMulti(ctx, batch) when it succeeds.
DeleteMulti(st, batch) ==
    Bind({batch[j] : j \in 1..Len(batch)}, LAMBDA dead :
         [i \in 1..Len(st) |-> IF i \in dead THEN Tombstone ELSE st[i]])

(***************************************************************************)
(* The execution methods.  Each is an operator from the builder, the store *)
(* and the faults the backend injects to what the method returns and the   *)
(* backend calls it issues.                                                *)
(***************************************************************************)
\* Delete that stores its keys-only query in the builder.
Receiver_StoresDerived(b, method) ==
    IF method = "Delete" THEN [b EXCEPT !.query = QKeysOnly(b.query)] ELSE b

\* The builder after one of its execution methods has run: the methods read
\* qb.query, qb.usingOffset and qb.usingCursor and assign to no field of the
\* receiver. Total and Delete hand the client a query derived from qb.query
\* (NewAggregationQuery, KeysOnly), which is not stored.
Receiver(b, method) == b

\* What client.RunAggregationQuery hands back for the count named "total":
\* an error, or a result map.  The map of a well-behaved backend holds a
\* *datastorepb.Value of integer type under "total" ("integer"); the other
\* shapes are a map without that key ("missing"), a value under the key that
\* is no *datastorepb.Value ("foreign"), and a *datastorepb.Value that holds
\* a double instead of an integer ("double").
AggShapes == {"integer", "missing", "foreign", "double"}
AggOutcomes ==
    [shape : AggShapes, err : {NoErr}] \cup [shape : {"integer"}, err : BackendErrors]

\* The aggregation query counts the results of the query it is built from,
\* with the limit, offset and start cursor that query carries.
RunAggregationQuery(st, q, agg) ==
    IF agg.err # NoErr
    THEN [err |-> agg.err, present |-> FALSE, isValue |-> FALSE, integer |-> 0]
    ELSE Bind(Len(RunQuery(st, q)), LAMBDA n :
              [err |-> NoErr,
               present |-> agg.shape # "missing",
               isValue |-> agg.shape \in {"integer", "double"},
               \* Value.GetIntegerValue(): 0 unless the value is an integer
               integer |-> IF agg.shape = "integer" THEN n ELSE 0])

Total(b, st, agg) ==
    Bind(RunAggregationQuery(st, b.query, agg), LAMBDA results :
         [ret |-> IF results.err # NoErr
                  THEN Ret("Total", NilSlice, NilPtr, "", 0, results.err)
                  ELSE IF ~results.present
                  THEN Ret("Total", NilSlice, NilPtr, "", 0, ErrCountMissing)
                  ELSE IF ~results.isValue
                  THEN Ret("Total", NilSlice, NilPtr, "", 0, ErrCountType)
                  ELSE Ret("Total", NilSlice, NilPtr, "", results.integer, NoErr),
          calls |-> <<Call("RunAggregationQuery", <<>>)>>])

\* No call of SelectWithCursor or Delete is under way.
NoRun == [op |-> "none", pc |-> "idle"]

\* The iterator client.Run hands back: nothing has been fetched yet.
NewIterator == [buf |-> <<>>, fetched |-> FALSE, base |-> 0, taken |-> 0]

\* The batch the backend answers with for the run of q of which `taken`
\* results have been handed out: the entities that follow, as they are in st
\* at the time of the answer, and the position before the first result of
\* the run.
Fetch(st, q, taken) ==
    Bind(Matching(st, q), LAMBDA m :
    Bind(Drop(Window(m, q), taken), LAMBDA rows :
         [buf |-> [k \in 1..Len(rows) |->
                      IF q.keysOnly THEN ZeroEntity ELSE Load(st[rows[k]])],
          base |-> Min(StartPos(q), Len(m))
                   + Min(q.offset, Len(m) - Min(StartPos(q), Len(m)))]))

\* it.Next(&entity): the first call fetches; a later call is served from the
\* batch at hand or, when the backend is asked again (refetch), from a batch
\* fetched at that time.  done stands for iterator.Done.
ItNext(st, q, it, refetch) ==
    Bind(IF refetch \/ ~it.fetched THEN Fetch(st, q, it.taken)
         ELSE [buf |-> it.buf, base |-> it.base], LAMBDA batch :
         IF batch.buf = <<>>
         THEN [done |-> TRUE, entity |-> ZeroEntity,
               it |-> [buf |-> <<>>, fetched |-> TRUE, base |-> batch.base,
                       taken |-> it.taken]]
         ELSE [done |-> FALSE, entity |-> Head(batch.buf),
               it |-> [buf |-> Tail(batch.buf), fetched |-> TRUE,
                       base |-> batch.base, taken |-> it.taken + 1]])

\* SelectWithCursor that tests the pagination flag after starting the run.
SelectWithCursorStart_LateCheck(b) ==
    IF b.usingOffset
    THEN [op |-> "SelectWithCursor", pc |-> "done", q |-> b.query,
          it |-> NewIterator, result |-> <<>>, calls |-> <<Call("Run", <<>>)>>,
          ret |-> Ret("SelectWithCursor", NilSlice, NilPtr, "", 0, ErrUseOffset)]
    ELSE [op |-> "SelectWithCursor", pc |-> "next", q |-> b.query,
          it |-> NewIterator, result |-> <<>>, calls |-> <<Call("Run", <<>>)>>,
          ret |-> NoRet]

\* SelectWithCursor up to the loop: the test of usingOffset, the empty result
\* and client.Run with the query the builder holds at that time.  What is
\* handed back are the locals of the call: pc is "done" once it has returned
\* (ret), "next" before a call of it.Next and "cursor" before it.Cursor.
SelectWithCursorStart(b) ==
    IF b.usingOffset
    THEN [op |-> "SelectWithCursor", pc |-> "done", q |-> b.query,
          it |-> NewIterator, result |-> <<>>, calls |-> <<>>,
          ret |-> Ret("SelectWithCursor", NilSlice, NilPtr, "", 0, ErrUseOffset)]
    ELSE [op |-> "SelectWithCursor", pc |-> "next", q |-> b.query,
          it |-> NewIterator, result |-> <<>>, calls |-> <<Call("Run", <<>>)>>,
          ret |-> NoRet]

\* The round of the loop that hands back what it had collected when it.Next
\* fails.
SelectWithCursorNext_Partial(r, st, refetch, fail) ==
    Bind(r.calls \o <<Call("Next", <<>>)>>, LAMBDA now :
         IF fail # NoErr
         THEN [r EXCEPT !.pc = "done", !.calls = now,
                        !.ret = Ret("SelectWithCursor", Slice(r.result), NilPtr,
                                    "", 0, fail)]
         ELSE Bind(ItNext(st, r.q, r.it, refetch), LAMBDA nx :
                   IF nx.done
                   THEN [r EXCEPT !.pc = "cursor", !.calls = now, !.it = nx.it]
                   ELSE [r EXCEPT !.calls = now, !.it = nx.it,
                                  !.result = Append(@, nx.entity)]))

\* One round of the loop of SelectWithCursor, against the store as it is at
\* that time: the call of it.Next, which fails with `fail` unless that is
\* NoErr, the return on an error, the break on iterator.Done, the append.
SelectWithCursorNext(r, st, refetch, fail) ==
    Bind(r.calls \o <<Call("Next", <<>>)>>, LAMBDA now :
         IF fail # NoErr
         THEN [r EXCEPT !.pc = "done", !.calls = now,
                        !.ret = Ret("SelectWithCursor", NilSlice, NilPtr, "", 0, fail)]
         ELSE Bind(ItNext(st, r.q, r.it, refetch), LAMBDA nx :
                   IF nx.done
                   THEN [r EXCEPT !.pc = "cursor", !.calls = now, !.it = nx.it]
                   ELSE [r EXCEPT !.calls = now, !.it = nx.it,
                                  !.result = Append(@, nx.entity)]))

\* SelectWithCursor after the loop: it.Cursor, which fails with `fail` unless
\* that is NoErr, and the return.  The cursor is the position the iterator
\* has reached.
SelectWithCursorEnd(r, fail) ==
    Bind(r.calls \o <<Call("Cursor", <<>>)>>, LAMBDA now :
         IF fail # NoErr
         THEN [r EXCEPT !.pc = "done", !.calls = now,
                        !.ret = Ret("SelectWithCursor", NilSlice, NilPtr, "", 0, fail)]
         ELSE [r EXCEPT !.pc = "done", !.calls = now,
                        !.ret = Ret("SelectWithCursor", Slice(r.result), NilPtr,
                                    CursorString(r.it.base + r.it.taken), 0, NoErr)])

RECURSIVE Iterate(_, _, _, _, _)
\* A call of SelectWithCursor from the point r on, with no other caller of
\* the backend in between: failNext is the number of the call of it.Next
\* that fails (0: none does), failCursor says whether it.Cursor fails, e is
\* the error.
Iterate(r, st, failNext, failCursor, e) ==
    IF r.pc = "done" THEN r
    ELSE IF r.pc = "cursor"
         THEN SelectWithCursorEnd(r, IF failCursor THEN e ELSE NoErr)
         ELSE Bind(SelectWithCursorNext(r, st, FALSE,
                                        IF Len(r.calls) = failNext THEN e ELSE NoErr),
                   LAMBDA r1 : Iterate(r1, st, failNext, failCursor, e))

\* SelectWithCursor as a whole when no other caller writes meanwhile.
SelectWithCursor(b, st, failNext, failCursor, e) ==
    Bind(Iterate(SelectWithCursorStart(b), st, failNext, failCursor, e),
         LAMBDA r : [ret |-> r.ret, calls |-> r.calls])

\* Select without the test of the pagination flag.
Select_NoCheck(b, st, fail) ==
    Bind(GetAll(st, b.query, fail), LAMBDA got :
         IF got.err # NoErr
         THEN [ret |-> Ret("Select", NilSlice, NilPtr, "", 0, got.err),
               calls |-> <<Call("GetAll", <<>>)>>]
         ELSE [ret |-> Ret("Select", got.result, NilPtr, "", 0, NoErr),
               calls |-> <<Call("GetAll", <<>>)>>])

Select(b, st, fail) ==
    IF b.usingCursor
    THEN [ret |-> Ret("Select", NilSlice, NilPtr, "", 0, ErrUseCursor),
          calls |-> <<>>]
    ELSE Bind(GetAll(st, b.query, fail), LAMBDA got :
              IF got.err # NoErr
              THEN [ret |-> Ret("Select", NilSlice, NilPtr, "", 0, got.err),
                    calls |-> <<Call("GetAll", <<>>)>>]
              ELSE [ret |-> Ret("Select", got.result, NilPtr, "", 0, NoErr),
                    calls |-> <<Call("GetAll", <<>>)>>])

\* Get that returns the last entity of the selection instead of the first.
Get_Last(b, st, fail) ==
    IF b.usingCursor
    THEN [ret |-> Ret("Get", NilSlice, NilPtr, "", 0, ErrUseCursor),
          calls |-> <<>>]
    ELSE Bind(Select(b, st, fail), LAMBDA tmp :
              IF tmp.ret.err # NoErr
              THEN [ret |-> Ret("Get", NilSlice, NilPtr, "", 0, tmp.ret.err),
                    calls |-> tmp.calls]
              ELSE IF Len(tmp.ret.result.items) > 0
                   THEN [ret |-> Ret("Get", NilSlice,
                                     Ptr(tmp.ret.result.items[Len(tmp.ret.result.items)]),
                                     "", 0, NoErr),
                         calls |-> tmp.calls]
                   ELSE [ret |-> Ret("Get", NilSlice, NilPtr, "", 0, NoErr),
                         calls |-> tmp.calls])

Get(b, st, fail) ==
    IF b.usingCursor
    THEN [ret |-> Ret("Get", NilSlice, NilPtr, "", 0, ErrUseCursor),
          calls |-> <<>>]
    ELSE Bind(Select(b, st, fail), LAMBDA tmp :
              IF tmp.ret.err # NoErr
              THEN [ret |-> Ret("Get", NilSlice, NilPtr, "", 0, tmp.ret.err),
                    calls |-> tmp.calls]
              ELSE IF Len(tmp.ret.result.items) > 0
                   THEN [ret |-> Ret("Get", NilSlice, Ptr(tmp.ret.result.items[1]),
                                     "", 0, NoErr),
                         calls |-> tmp.calls]
                   ELSE [ret |-> Ret("Get", NilSlice, NilPtr, "", 0, NoErr),
                         calls |-> tmp.calls])

\* The batch that stops one key short of the chunk size.
Batch_Short(keys, i) ==
    SubSeq(keys, i + 1,
           IF i + ChunkSize - 1 > Len(keys) THEN Len(keys) ELSE i + ChunkSize - 1)

\* keys[i:end] of the round of the loop of Delete that starts at index i.
Batch(keys, i) ==
    SubSeq(keys, i + 1, IF i + ChunkSize > Len(keys) THEN Len(keys) ELSE i + ChunkSize)

\* The round of the loop of Delete that goes on to the next chunk after a
\* failure.
DeleteNext_GoesOn(r, st, fail, landed) ==
    Bind(Batch(r.keys, r.i), LAMBDA batch :
    Bind(r.calls \o <<Call("DeleteMulti", batch)>>, LAMBDA now :
    Bind(r.i + ChunkSize, LAMBDA i1 :
    Bind(IF fail # NoErr THEN fail ELSE r.ret.err, LAMBDA err :
         [run |-> IF i1 < Len(r.keys)
                  THEN [r EXCEPT !.i = i1, !.calls = now,
                                 !.ret = Ret("none", NilSlice, NilPtr, "", 0, err)]
                  ELSE [r EXCEPT !.pc = "done", !.i = i1, !.calls = now,
                                 !.ret = Ret("Delete", NilSlice, NilPtr, "", 0, err)],
          store |-> IF fail # NoErr /\ ~landed THEN st
                    ELSE DeleteMulti(st, batch)]))))

\* The round of the loop of Delete with the loop test "i <= totalKey".
DeleteNext_OneMore(r, st, fail, landed) ==
    Bind(Batch(r.keys, r.i), LAMBDA batch :
    Bind(r.calls \o <<Call("DeleteMulti", batch)>>, LAMBDA now :
         IF fail # NoErr
         THEN [run |-> [r EXCEPT !.pc = "done", !.calls = now,
                                 !.ret = Ret("Delete", NilSlice, NilPtr, "", 0, fail)],
               store |-> IF landed THEN DeleteMulti(st, batch) ELSE st]
         ELSE Bind(r.i + ChunkSize, LAMBDA i1 :
                   [run |-> IF i1 <= Len(r.keys)
                            THEN [r EXCEPT !.i = i1, !.calls = now]
                            ELSE [r EXCEPT !.pc = "done", !.i = i1, !.calls = now,
                                           !.ret = Ret("Delete", NilSlice, NilPtr,
                                                       "", 0, NoErr)],
                    store |-> DeleteMulti(st, batch)])))

\* One round of the loop of Delete, against the store as it is at that time:
\* the call of DeleteMulti for keys[i:end], which fails with `fail` unless
\* that is NoErr (landed says whether the backend applied the failing call
\* all the same), the return on an error, the step of i and the loop test.
DeleteNext(r, st, fail, landed) ==
    Bind(Batch(r.keys, r.i), LAMBDA batch :
    Bind(r.calls \o <<Call("DeleteMulti", batch)>>, LAMBDA now :
         IF fail # NoErr
         THEN [run |-> [r EXCEPT !.pc = "done", !.calls = now,
                                 !.ret = Ret("Delete", NilSlice, NilPtr, "", 0, fail)],
               store |-> IF landed THEN DeleteMulti(st, batch) ELSE st]
         ELSE Bind(r.i + ChunkSize, LAMBDA i1 :
                   [run |-> IF i1 < Len(r.keys)
                            THEN [r EXCEPT !.i = i1, !.calls = now]
                            ELSE [r EXCEPT !.pc = "done", !.i = i1, !.calls = now,
                                           !.ret = Ret("Delete", NilSlice, NilPtr,
                                                       "", 0, NoErr)],
                    store |-> DeleteMulti(st, batch)])))

\* Delete that logs the error of the keys-only query and goes on.
DeleteStart_SwallowsQueryError(b, st, failQuery) ==
    Bind(GetAll(st, QKeysOnly(b.query), failQuery), LAMBDA got :
         IF got.err = NoErr /\ Len(got.keys) > 0
         THEN [op |-> "Delete", pc |-> "chunk", keys |-> got.keys, i |-> 0,
               calls |-> <<Call("GetAll", <<>>)>>, ret |-> NoRet]
         ELSE [op |-> "Delete", pc |-> "done", keys |-> <<>>, i |-> 0,
               calls |-> <<Call("GetAll", <<>>)>>,
               ret |-> Ret("Delete", NilSlice, NilPtr, "", 0, NoErr)])

\* Delete up to the loop: the keys-only query derived from the query the
\* builder holds, the return when it fails, the test of totalKey.  What is
\* handed back are the locals of the call: pc is "done" once it has returned
\* (ret) and "chunk" before a call of DeleteMulti.
DeleteStart(b, st, failQuery) ==
    Bind(GetAll(st, QKeysOnly(b.query), failQuery), LAMBDA got :
         IF got.err # NoErr
         THEN [op |-> "Delete", pc |-> "done", keys |-> <<>>, i |-> 0,
               calls |-> <<Call("GetAll", <<>>)>>,
               ret |-> Ret("Delete", NilSlice, NilPtr, "", 0, got.err)]
         ELSE IF Len(got.keys) > 0
              THEN [op |-> "Delete", pc |-> "chunk", keys |-> got.keys, i |-> 0,
                    calls |-> <<Call("GetAll", <<>>)>>, ret |-> NoRet]
              ELSE [op |-> "Delete", pc |-> "done", keys |-> <<>>, i |-> 0,
                    calls |-> <<Call("GetAll", <<>>)>>,
                    ret |-> Ret("Delete", NilSlice, NilPtr, "", 0, NoErr)])

RECURSIVE DeleteLoop(_, _, _, _, _)
\* A call of Delete from the point r on, with no other caller of the backend
\* in between: failChunk is the number of the call of DeleteMulti that fails
\* (0: none does), e its error, landed whether it was applied all the same.
DeleteLoop(r, st, failChunk, e, landed) ==
    IF r.pc = "done" THEN [run |-> r, store |-> st]
    ELSE Bind(DeleteNext(r, st, IF Len(r.calls) = failChunk THEN e ELSE NoErr, landed),
              LAMBDA s : DeleteLoop(s.run, s.store, failChunk, e, landed))

\* Delete as a whole when no other caller writes meanwhile.
Delete(b, st, failQuery, failChunk, e, landed) ==
    Bind(DeleteLoop(DeleteStart(b, st, failQuery), st, failChunk, e, landed),
         LAMBDA d : [ret |-> d.run.ret, store |-> d.store, calls |-> d.run.calls])

\* A backend call that writes: its keys and the entities paired with them.
PutCall(op, keys, entities) == [op |-> op, keys |-> keys, entities |-> entities]

\* The stored form of a value of type T.
Stored(e) == Entity(e.status, e.age)

Max(a, b) == IF a > b THEN a ELSE b

\* The key names the stores of the model can hold, and the position of each
\* in key order.
NameSpace == Max(MaxChunks * ChunkSize, PutMultiLimit) + MaxStore + 1
Names == [i \in 1..NameSpace |-> KeyName(i)]
NameIndex == [nm \in {Names[i] : i \in 1..NameSpace} |->
                 CHOOSE i \in 1..NameSpace : Names[i] = nm]

RECURSIVE WriteRange(_, _, _, _, _)
\* The store st once the entities lo..hi are written in turn, each under its
\* key (the range is split in halves to keep the recursion shallow).
WriteRange(st, keys, entities, lo, hi) ==
    IF lo > hi THEN st
    ELSE IF lo = hi
         THEN [st EXCEPT ![NameIndex[keys[lo].name]] = Stored(entities[lo])]
         ELSE Bind((lo + hi) \div 2, LAMBDA mid :
              Bind(WriteRange(st, keys, entities, lo, mid), LAMBDA half :
                   WriteRange(half, keys, entities, mid + 1, hi)))

\* The store once the entities are written under the keys: the keys beyond
\* the store extend it (they follow on the keys of the store without a gap).
Written(st, keys, entities) ==
    Bind(Len(st) + Cardinality({p \in 1..Len(keys) :
                                   NameIndex[keys[p].name] > Len(st)}), LAMBDA top :
    Bind([i \in 1..top |-> IF i <= Len(st) THEN st[i] ELSE Tombstone], LAMBDA room :
         WriteRange(room, keys, entities, 1, Len(keys))))

\* client.Put(ctx, key, data); fail is the error of the call.
Put(st, key, data, fail) ==
    IF fail # NoErr
    THEN [err |-> fail, store |-> st]
    ELSE [err |-> NoErr, store |-> Written(st, <<key>>, <<data>>)]

\* client.PutMulti(ctx, keys, entities): the backend turns down a call of
\* more than PutMultiLimit entities and writes none of them.
PutMulti(st, keys, entities, fail) ==
    IF Len(keys) > PutMultiLimit
    THEN [err |-> ErrTooMany, store |-> st]
    ELSE IF fail # NoErr
         THEN [err |-> fail, store |-> st]
         ELSE [err |-> NoErr, store |-> Written(st, keys, entities)]

\* Upsert that tries the write once more when it fails.
Upsert_Retries(b, st, id, data, fail) ==
    Bind(NameKey(b.kind, id), LAMBDA key :
    Bind(Put(st, key, data, fail), LAMBDA put :
         IF put.err # NoErr
         THEN Bind(Put(st, key, data, NoErr), LAMBDA again :
                   [ret |-> Ret("Upsert", NilSlice, NilPtr, "", 0, again.err),
                    store |-> again.store,
                    calls |-> <<PutCall("Put", <<key>>, <<data>>),
                                PutCall("Put", <<key>>, <<data>>)>>])
         ELSE [ret |-> Ret("Upsert", NilSlice, NilPtr, "", 0, put.err),
               store |-> put.store,
               calls |-> <<PutCall("Put", <<key>>, <<data>>)>>]))

Upsert(b, st, id, data, fail) ==
    Bind(NameKey(b.kind, id), LAMBDA key :
    Bind(Put(st, key, data, fail), LAMBDA put :
         [ret |-> Ret("Upsert", NilSlice, NilPtr, "", 0, put.err),
          store |-> put.store,
          calls |-> <<PutCall("Put", <<key>>, <<data>>)>>]))

\* UpsertMulti that writes a large map in batches of PutMultiLimit entities.
UpsertMulti_Chunked(b, st, items, fail) ==
    IF Len(items) = 0
    THEN [ret |-> Ret("UpsertMulti", NilSlice, NilPtr, "", 0, NoErr),
          store |-> st, calls |-> <<>>]
    ELSE Bind([p \in 1..Len(items) |-> NameKey(b.kind, items[p].id)], LAMBDA keys :
         Bind([p \in 1..Len(items) |-> items[p].data], LAMBDA entities :
         Bind(PutMulti(st, Take(keys, PutMultiLimit), Take(entities, PutMultiLimit), fail),
              LAMBDA put :
                  IF put.err # NoErr \/ Len(keys) <= PutMultiLimit
                  THEN [ret |-> Ret("UpsertMulti", NilSlice, NilPtr, "", 0, put.err),
                        store |-> put.store,
                        calls |-> <<PutCall("PutMulti", Take(keys, PutMultiLimit),
                                            Take(entities, PutMultiLimit))>>]
                  ELSE Bind(PutMulti(put.store, Drop(keys, PutMultiLimit),
                                     Drop(entities, PutMultiLimit), fail),
                            LAMBDA rest :
                                [ret |-> Ret("UpsertMulti", NilSlice, NilPtr, "", 0,
                                             rest.err),
                                 store |-> rest.store,
                                 calls |-> <<PutCall("PutMulti",
                                                     Take(keys, PutMultiLimit),
                                                     Take(entities, PutMultiLimit)),
                                             PutCall("PutMulti",
                                                     Drop(keys, PutMultiLimit),
                                                     Drop(entities, PutMultiLimit))>>]))))

\* items is the map from id to entity, as the sequence of its entries
\* [id, data] in the order the range over the map yields them (an order the
\* language leaves open); no two entries have the same id.
UpsertMulti(b, st, items, fail) ==
    IF Len(items) = 0
    THEN [ret |-> Ret("UpsertMulti", NilSlice, NilPtr, "", 0, NoErr),
          store |-> st, calls |-> <<>>]
    ELSE Bind([p \in 1..Len(items) |-> NameKey(b.kind, items[p].id)], LAMBDA keys :
         Bind([p \in 1..Len(items) |-> items[p].data], LAMBDA entities :
         Bind(PutMulti(st, keys, entities, fail), LAMBDA put :
              [ret |-> Ret("UpsertMulti", NilSlice, NilPtr, "", 0, put.err),
               store |-> put.store,
               calls |-> <<PutCall("PutMulti", keys, entities)>>])))

(***************************************************************************)
(* Inputs of the actions.                                                  *)
(***************************************************************************)
LimitInputs == -1..MaxLimit
OffsetInputs == -1..MaxOffset
OrderInputs == {"age"}
\* "" is the empty token, "garbage" does not decode, the rest are cursors.
TokenInputs == {"", "garbage", CursorString(1)}
FilterInputs ==
    { <<"status", OpEqual, StrVal("active")>>,
      <<"age", OpGreaterEqual, IntVal(2)>>,
      <<FieldKey, OpEqual, IntVal(1)>> }
\* Values given for the key field: strings, and values of other types.
KeyValueInputs ==
    { StrVal(KeyName(1)), StrVal("nobody"), IntVal(1),
      KeyVal(NameKey(Kind, KeyName(1))), ListVal(<<StrVal(KeyName(1))>>) }
\* The filters of the filter specification.
WideFilterInputs ==
    FilterInputs
    \cup { <<"age", OpLess, IntVal(3)>>,
           <<"status", OpIn, ListVal(<<StrVal("active"), StrVal("pending")>>)>> }
    \cup { <<FieldKey, OpEqual, v>> : v \in KeyValueInputs }
AncestorInputs == {NoKey, NameKey(Kind, KeyName(2))}
ErrInputs == {NoErr} \cup BackendErrors

\* The faults of one run of SelectWithCursor over at most n rows: none, the
\* k-th call of it.Next fails, or the call of it.Cursor fails.
IterFaults(n) ==
    {[failNext |-> 0, failCursor |-> FALSE, e |-> "unavailable"]}
    \cup [failNext : 1..(n + 1), failCursor : {FALSE}, e : BackendErrors]
    \cup [failNext : {0}, failCursor : {TRUE}, e : BackendErrors]

\* The faults of one run of Delete: none, the keys-only query fails, or the
\* k-th call of DeleteMulti fails (and may have been applied all the same).
DeleteFaults ==
    {[failQuery |-> NoErr, failChunk |-> 0, e |-> "unavailable", landed |-> FALSE]}
    \cup [failQuery : BackendErrors, failChunk : {0}, e : {"unavailable"}, landed : {FALSE}]
    \cup [failQuery : {NoErr}, failChunk : 1..(MaxChunks + 1), e : BackendErrors,
          landed : BOOLEAN]

\* The values of type T given to Upsert and UpsertMulti.
EntityA == [status |-> "active", age |-> 1]
EntityB == [status |-> "pending", age |-> 2]
EntityInputs == {EntityA, EntityB}

\* The ids written one by one and in small maps: those of the store st and
\* the next one, up to MaxStore; none once a large map has been written.
IdInputs(st) ==
    IF Len(st) > MaxStore THEN {}
    ELSE {KeyName(i) : i \in 1..Min(Len(st) + 1, MaxStore)}

\* The small maps given to UpsertMulti on the store st, in every order of
\* their entries: up to MaxItems ids, neighbouring ids with different
\* entities.
MapInputs(st) ==
    IF Len(st) > MaxStore THEN {}
    ELSE {<<>>}
         \cup {[p \in 1..Len(o) |->
                   [id |-> o[p],
                    data |-> IF (NameIndex[o[p]] % 2 = 0) = flip
                             THEN EntityA ELSE EntityB]] :
                  o \in UNION {[1..n -> IdInputs(st)] : n \in 1..MaxItems},
                  flip \in BOOLEAN}

\* Whether the entries of items have different ids that leave no gap above
\* the ids of the store st.
WellFormed(st, items) ==
    /\ \A p, q \in 1..Len(items) : items[p].id = items[q].id => p = q
    /\ \A p \in 1..Len(items) :
          \A i \in (Len(st) + 2)..MaxStore :
              items[p].id = KeyName(i) =>
                  \E q \in 1..Len(items) : items[q].id = KeyName(i - 1)

\* The large maps given to UpsertMulti: n entries with ids KeyName(1..n), each
\* with its own entity, in ascending or descending order of the ids.
BulkEntity(i) == [status |-> Statuses[(i % 2) + 1], age |-> i]
BulkSizes == {PutMultiLimit, PutMultiLimit + 1}
BulkMap(n, descending) ==
    [p \in 1..n |-> Bind(IF descending THEN n + 1 - p ELSE p, LAMBDA i :
                         [id |-> KeyName(i), data |-> BulkEntity(i)])]

\* The entity the i-th slot of a sample store holds.
SampleEntity(i) == Entity(Statuses[((i - 1) % 2) + 1], ((i * 2) % 3) + 1)
SampleStore(n) == [i \in 1..n |-> SampleEntity(i)]

(***************************************************************************)
(* The caller of the README's cursor pagination: every page is fetched by  *)
(* a fresh builder of the same shape, given the cursor of the page before. *)
(***************************************************************************)
RECURSIVE ApplyFilters(_, _)
ApplyFilters(b, fs) ==
    IF fs = <<>> THEN b
    ELSE Bind(WithFilter(b, Head(fs)[1], Head(fs)[2], Head(fs)[3]),
              LAMBDA b1 : ApplyFilters(b1, Tail(fs)))

RECURSIVE ApplyOrders(_, _)
ApplyOrders(b, os) ==
    IF os = <<>> THEN b
    ELSE Bind(IF Head(os).desc THEN WithOrderDesc(b, Head(os).field)
              ELSE WithOrder(b, Head(os).field),
              LAMBDA b1 : ApplyOrders(b1, Tail(os)))

\* Query(...).WithFilter(...).WithOrder(...).WithLimit(limit)
Shaped(p) ==
    Bind(ApplyFilters(Query(Kind), p.filters), LAMBDA b1 :
    Bind(ApplyOrders(b1, p.orders), LAMBDA b2 : WithLimit(b2, p.limit)))

Pager(filters, orders, limit) ==
    [filters |-> filters, orders |-> orders, limit |-> limit,
     cursor |-> "", pages |-> <<>>, err |-> NoErr, busy |-> FALSE, last |-> FALSE]

IdlePager == Pager(<<>>, <<>>, 0)

\* No builder call is running concurrently.
NoProcs == <<>>

(***************************************************************************)
(* Builder calls running concurrently on one builder.  A builder method is *)
(* the statement qb.query = qb.query.X(arg), which reads the field, derives *)
(* a query and writes the field back, followed for WithLimit and           *)
(* WithOffset by the write of qb.limit or qb.usingOffset.  Nothing         *)
(* synchronizes the steps, so those of two calls interleave.  Each call    *)
(* keeps what it has read in `local`; readAt and wroteAt record how many   *)
(* writes of qb.query had happened when it read and when it had written.   *)
(***************************************************************************)
RaceCalls ==
    {[op |-> "WithFilter", key |-> f[1], operator |-> f[2], value |-> f[3], n |-> 0] :
        f \in {g \in FilterInputs : g[1] # FieldKey}}
    \cup {[op |-> "WithLimit", key |-> "", operator |-> "", value |-> IntVal(0), n |-> 1],
          [op |-> "WithOffset", key |-> "", operator |-> "", value |-> IntVal(0), n |-> 1]}

Proc(call) ==
    [call |-> call, pc |-> "read", local |-> NewQuery(Kind), readAt |-> 0, wroteAt |-> 0]

\* The query a call derives from the query q it has read.
Derived(q, call) ==
    IF call.op = "WithFilter" THEN QFilterField(q, call.key, call.operator, call.value)
    ELSE IF call.op = "WithLimit" THEN QLimit(q, call.n)
    ELSE QOffset(q, call.n)

\* The write of qb.query that stores the query derived from the one in the
\* builder at the time of the write, as if read and write were one step.
WriteQuery_Atomic(b, q, call) == [b EXCEPT !.query = Derived(b.query, call)]

\* The write of qb.query: the query derived from the query q read before.
WriteQuery(b, q, call) == [b EXCEPT !.query = Derived(q, call)]

\* The write that follows in WithLimit (qb.limit) and WithOffset
\* (qb.usingOffset).
WriteField(b, call) ==
    IF call.op = "WithLimit" THEN [b EXCEPT !.limit = call.n]
    ELSE [b EXCEPT !.usingOffset = TRUE]

\* The number of writes of qb.query made so far.
Writes(ps) == Cardinality({t \in 1..Len(ps) : ps[t].pc \in {"field", "done"}})

PageFilterInputs == {<<>>} \cup {<<f>> : f \in FilterInputs}
PageOrderInputs ==
    {<<>>} \cup {<<[field |-> f, desc |-> d]>> : f \in OrderInputs, d \in BOOLEAN}

(***************************************************************************)
(* Initial states.                                                         *)
(***************************************************************************)
Init ==
    /\ qb = Query(Kind)
    /\ \E n \in {0, MaxStore} : store = SampleStore(n)
    /\ ret = NoRet
    /\ calls = <<>>
    /\ pager = IdlePager
    /\ procs = NoProcs
    /\ run = NoRun

InitPages ==
    /\ qb = Query(Kind)
    /\ \E n \in 0..MaxPageStore : store = SampleStore(n)
    /\ ret = NoRet
    /\ calls = <<>>
    /\ \E fs \in PageFilterInputs, os \in PageOrderInputs, l \in 0..MaxPageLimit :
          pager = Pager(fs, os, l)
    /\ procs = NoProcs
    /\ run = NoRun

\* The numbers of entities at and one past the chunk boundaries.
KeyCounts == {c * ChunkSize + d : c \in 0..MaxChunks, d \in {0, 1}}

InitFilter ==
    /\ qb = Query(Kind)
    /\ \E n \in 0..MaxStore : store = SampleStore(n)
    /\ ret = NoRet
    /\ calls = <<>>
    /\ pager = IdlePager
    /\ procs = NoProcs
    /\ run = NoRun

InitWrite ==
    /\ qb = Query(Kind)
    /\ \E n \in 0..1 : store = SampleStore(n)
    /\ ret = NoRet
    /\ calls = <<>>
    /\ pager = IdlePager
    /\ procs = NoProcs
    /\ run = NoRun

InitRace ==
    /\ qb = Query(Kind)
    /\ store = SampleStore(MaxStore)
    /\ ret = NoRet
    /\ calls = <<>>
    /\ pager = IdlePager
    /\ procs \in [1..NumProcs -> {Proc(c) : c \in RaceCalls}]
    /\ run = NoRun

InitDelete ==
    /\ qb = Query(Kind)
    /\ \E n \in KeyCounts : store = SampleStore(n)
    /\ ret = NoRet
    /\ calls = <<>>
    /\ pager = IdlePager
    /\ procs = NoProcs
    /\ run = NoRun

(***************************************************************************)
(* Actions: one per method call.                                           *)
(* A builder method returns the builder and reaches no backend: ret is     *)
(* NoRet and calls is empty after it.                                      *)
(***************************************************************************)
QueryCall ==
    /\ run = NoRun
    /\ qb' = Query(Kind)
    /\ ret' = NoRet
    /\ calls' = <<>>
    /\ UNCHANGED <<store, pager, procs, run>>

WithDistinctCall ==
    /\ run = NoRun
    /\ qb' = WithDistinct(qb)
    /\ ret' = NoRet
    /\ calls' = <<>>
    /\ UNCHANGED <<store, pager, procs, run>>

WithLimitCall ==
    /\ run = NoRun
    /\ \E limit \in LimitInputs : qb' = WithLimit(qb, limit)
    /\ ret' = NoRet
    /\ calls' = <<>>
    /\ UNCHANGED <<store, pager, procs, run>>

WithOffsetCall ==
    /\ run = NoRun
    /\ \E offset \in OffsetInputs : qb' = WithOffset(qb, offset)
    /\ ret' = NoRet
    /\ calls' = <<>>
    /\ UNCHANGED <<store, pager, procs, run>>

WithOrderCall ==
    /\ run = NoRun
    /\ Len(qb.query.order) < MaxOrders
    /\ \E field \in OrderInputs : qb' = WithOrder(qb, field)
    /\ ret' = NoRet
    /\ calls' = <<>>
    /\ UNCHANGED <<store, pager, procs, run>>

WithOrderDescCall ==
    /\ run = NoRun
    /\ Len(qb.query.order) < MaxOrders
    /\ \E field \in OrderInputs : qb' = WithOrderDesc(qb, field)
    /\ ret' = NoRet
    /\ calls' = <<>>
    /\ UNCHANGED <<store, pager, procs, run>>

WithCursorCall ==
    /\ run = NoRun
    /\ \E cursor \in TokenInputs : qb' = WithCursor(qb, cursor)
    /\ ret' = NoRet
    /\ calls' = <<>>
    /\ UNCHANGED <<store, pager, procs, run>>

WithFilterCall ==
    /\ run = NoRun
    /\ Len(qb.query.filter) < MaxFilters
    /\ \E f \in FilterInputs : qb' = WithFilter(qb, f[1], f[2], f[3])
    /\ ret' = NoRet
    /\ calls' = <<>>
    /\ UNCHANGED <<store, pager, procs, run>>

\* WithFilter in the filter specification, with its wider inputs.
WithFilterAnyCall ==
    /\ run = NoRun
    /\ Len(qb.query.filter) < MaxAnd
    /\ \E f \in WideFilterInputs : qb' = WithFilter(qb, f[1], f[2], f[3])
    /\ ret' = NoRet
    /\ calls' = <<>>
    /\ UNCHANGED <<store, pager, procs, run>>

WithAncestorKeyCall ==
    /\ run = NoRun
    /\ \E ancestorKey \in AncestorInputs : qb' = WithAncestorKey(qb, ancestorKey)
    /\ ret' = NoRet
    /\ calls' = <<>>
    /\ UNCHANGED <<store, pager, procs, run>>

KeysOnlyCall ==
    /\ run = NoRun
    /\ qb' = KeysOnly(qb)
    /\ ret' = NoRet
    /\ calls' = <<>>
    /\ UNCHANGED <<store, pager, procs, run>>

\* What a step of SelectWithCursor or Delete leaves: the calls issued so far
\* and, once the method has returned, what it returned.
Proceed(r) ==
    /\ ret' = r.ret
    /\ calls' = r.calls
    /\ run' = IF r.pc = "done" THEN NoRun ELSE r

\* The call of SelectWithCursor, up to its first wait for the backend.
SelectWithCursorCall ==
    /\ run = NoRun
    /\ Proceed(SelectWithCursorStart(qb))
    /\ qb' = Receiver(qb, "SelectWithCursor")
    /\ UNCHANGED <<store, pager, procs>>

\* One call of it.Next and what the loop does with its answer.
SelectWithCursorNextStep ==
    /\ run.op = "SelectWithCursor"
    /\ run.pc = "next"
    /\ \E refetch \in BOOLEAN, fail \in ErrInputs :
          Proceed(SelectWithCursorNext(run, store, refetch, fail))
    /\ qb' = Receiver(qb, "SelectWithCursor")
    /\ UNCHANGED <<store, pager, procs>>

\* The call of it.Cursor and the return.
SelectWithCursorEndStep ==
    /\ run.op = "SelectWithCursor"
    /\ run.pc = "cursor"
    /\ \E fail \in ErrInputs : Proceed(SelectWithCursorEnd(run, fail))
    /\ qb' = Receiver(qb, "SelectWithCursor")
    /\ UNCHANGED <<store, pager, procs>>

SelectCall ==
    /\ run = NoRun
    /\ \E fail \in ErrInputs :
          \E out \in {Select(qb, store, fail)} :
              /\ ret' = out.ret
              /\ calls' = out.calls
    /\ qb' = Receiver(qb, "Select")
    /\ UNCHANGED <<store, pager, procs, run>>

GetCall ==
    /\ run = NoRun
    /\ \E fail \in ErrInputs :
          \E out \in {Get(qb, store, fail)} :
              /\ ret' = out.ret
              /\ calls' = out.calls
    /\ qb' = Receiver(qb, "Get")
    /\ UNCHANGED <<store, pager, procs, run>>

TotalCall ==
    /\ run = NoRun
    /\ \E agg \in AggOutcomes :
          \E out \in {Total(qb, store, agg)} :
              /\ ret' = out.ret
              /\ calls' = out.calls
    /\ qb' = Receiver(qb, "Total")
    /\ UNCHANGED <<store, pager, procs, run>>

UpsertCall ==
    /\ run = NoRun
    /\ \E id \in IdInputs(store), data \in EntityInputs, fail \in ErrInputs :
          \E out \in {Upsert(qb, store, id, data, fail)} :
              /\ ret' = out.ret
              /\ calls' = out.calls
              /\ store' = out.store
    /\ qb' = Receiver(qb, "Upsert")
    /\ UNCHANGED <<pager, procs, run>>

UpsertMultiCall ==
    /\ run = NoRun
    /\ \E items \in MapInputs(store), fail \in ErrInputs :
          /\ WellFormed(store, items)
          /\ \E out \in {UpsertMulti(qb, store, items, fail)} :
                /\ ret' = out.ret
                /\ calls' = out.calls
                /\ store' = out.store
    /\ qb' = Receiver(qb, "UpsertMulti")
    /\ UNCHANGED <<pager, procs, run>>

\* UpsertMulti with a map at or above the backend's ceiling.
UpsertMultiBulkCall ==
    /\ run = NoRun
    /\ \E n \in BulkSizes, descending \in BOOLEAN, fail \in ErrInputs :
          \E out \in {UpsertMulti(qb, store, BulkMap(n, descending), fail)} :
              /\ ret' = out.ret
              /\ calls' = out.calls
              /\ store' = out.store
    /\ qb' = Receiver(qb, "UpsertMulti")
    /\ UNCHANGED <<pager, procs, run>>

\* A concurrent call reads qb.query.
ReadStep ==
    /\ \E t \in 1..Len(procs) :
          /\ procs[t].pc = "read"
          /\ procs' = [procs EXCEPT ![t].local = qb.query,
                                    ![t].readAt = Writes(procs),
                                    ![t].pc = "write"]
    /\ UNCHANGED <<qb, store, ret, calls, pager, run>>

\* A concurrent call writes the query it has derived to qb.query.
WriteStep ==
    /\ \E t \in 1..Len(procs) :
          /\ procs[t].pc = "write"
          /\ qb' = WriteQuery(qb, procs[t].local, procs[t].call)
          /\ procs' = [procs EXCEPT ![t].wroteAt = Writes(procs) + 1,
                                    ![t].pc = IF procs[t].call.op = "WithFilter"
                                              THEN "done" ELSE "field"]
    /\ UNCHANGED <<store, ret, calls, pager, run>>

\* A concurrent WithLimit or WithOffset writes its own field and returns.
FieldStep ==
    /\ \E t \in 1..Len(procs) :
          /\ procs[t].pc = "field"
          /\ qb' = WriteField(qb, procs[t].call)
          /\ procs' = [procs EXCEPT ![t].pc = "done"]
    /\ UNCHANGED <<store, ret, calls, pager, run>>

\* The call of Delete, up to the answer to its keys-only query.
DeleteCall ==
    /\ run = NoRun
    /\ \E failQuery \in ErrInputs : Proceed(DeleteStart(qb, store, failQuery))
    /\ qb' = Receiver(qb, "Delete")
    /\ UNCHANGED <<store, pager, procs>>

\* One call of DeleteMulti and what the loop does with its answer.
DeleteNextStep ==
    /\ run.op = "Delete"
    /\ run.pc = "chunk"
    /\ \E fail \in ErrInputs, landed \in BOOLEAN :
          \E out \in {DeleteNext(run, store, fail, landed)} :
              /\ Proceed(out.run)
              /\ store' = out.store
    /\ qb' = Receiver(qb, "Delete")
    /\ UNCHANGED <<pager, procs>>

\* Another caller of the shared connection handle, with a builder of its
\* own, writes an entity or deletes one while this caller is where it is.
OtherCallerWrite ==
    /\ \/ \E id \in IdInputs(store), data \in EntityInputs :
             store' = Upsert(Query(Kind), store, id, data, NoErr).store
       \/ \E i \in 1..Len(store) :
             /\ store[i].live
             /\ store' = DeleteMulti(store, <<i>>)
    /\ UNCHANGED <<qb, ret, calls, pager, procs, run>>

\* The pagination example enters a round of its loop: it builds the builder
\* and calls SelectWithCursor.
NextPage ==
    /\ run = NoRun
    /\ ~pager.busy
    /\ ~pager.last
    /\ pager.err = NoErr
    /\ Len(pager.pages) < MaxPages
    /\ \E b \in {WithCursor(Shaped(pager), pager.cursor)} :
          /\ qb' = b
          /\ Proceed(SelectWithCursorStart(b))
    /\ pager' = [pager EXCEPT !.busy = TRUE]
    /\ UNCHANGED <<store, procs>>

\* SelectWithCursor has returned to the loop of the example: the loop ends on
\* an error, appends the page, ends after a page shorter than the limit and
\* otherwise goes on from the cursor handed back.
PageReturn ==
    /\ pager.busy
    /\ run = NoRun
    /\ pager' = IF ret.err # NoErr
                THEN [pager EXCEPT !.busy = FALSE, !.err = ret.err]
                ELSE IF Len(ret.result.items) < pager.limit
                THEN [pager EXCEPT !.busy = FALSE, !.last = TRUE,
                                   !.pages = Append(@, ret.result.items)]
                ELSE [pager EXCEPT !.busy = FALSE,
                                   !.pages = Append(@, ret.result.items),
                                   !.cursor = ret.cursor]
    /\ UNCHANGED <<qb, store, ret, calls, procs, run>>


Next ==
    \/ QueryCall
    \/ WithDistinctCall
    \/ WithLimitCall
    \/ WithOffsetCall
    \/ WithOrderCall
    \/ WithOrderDescCall
    \/ WithCursorCall
    \/ WithFilterCall
    \/ WithAncestorKeyCall
    \/ KeysOnlyCall
    \/ SelectWithCursorCall
    \/ SelectWithCursorNextStep
    \/ SelectWithCursorEndStep
    \/ SelectCall
    \/ GetCall
    \/ TotalCall

Spec == Init /\ [][Next]_vars

\* The cursor pagination of the README against an unchanging store.
NextPages ==
    \/ NextPage
    \/ SelectWithCursorNextStep
    \/ SelectWithCursorEndStep
    \/ PageReturn

SpecPages == InitPages /\ [][NextPages]_vars

\* Delete against stores around the chunk boundaries.
NextDelete ==
    \/ QueryCall
    \/ WithFilterCall
    \/ DeleteCall
    \/ DeleteNextStep

SpecDelete == InitDelete /\ [][NextDelete]_vars

\* A caller accumulating filters of every shape and selecting.
NextFilter ==
    \/ QueryCall
    \/ WithFilterAnyCall
    \/ SelectCall

SpecFilter == InitFilter /\ [][NextFilter]_vars

\* A caller writing entities one by one and in maps, small and large.
NextWrite ==
    \/ UpsertCall
    \/ UpsertMultiCall
    \/ UpsertMultiBulkCall

SpecWrite == InitWrite /\ [][NextWrite]_vars

\* A caller running every execution method against a small store.
NextOps ==
    \/ QueryCall
    \/ SelectCall
    \/ GetCall
    \/ SelectWithCursorCall
    \/ SelectWithCursorNextStep
    \/ SelectWithCursorEndStep
    \/ TotalCall
    \/ UpsertCall
    \/ UpsertMultiCall
    \/ DeleteCall
    \/ DeleteNextStep
    \/ OtherCallerWrite

SpecOps == Init /\ [][NextOps]_vars

\* The execution methods on builders in either pagination mode, or both.
NextFrame ==
    \/ QueryCall
    \/ WithOffsetCall
    \/ WithCursorCall
    \/ SelectCall
    \/ GetCall
    \/ SelectWithCursorCall
    \/ SelectWithCursorNextStep
    \/ SelectWithCursorEndStep
    \/ TotalCall
    \/ UpsertCall
    \/ UpsertMultiCall
    \/ DeleteCall
    \/ DeleteNextStep

SpecFrame == Init /\ [][NextFrame]_vars

\* Builder calls running concurrently on one fresh builder.
NextRace ==
    \/ ReadStep
    \/ WriteStep
    \/ FieldStep

SpecRace == InitRace /\ [][NextRace]_vars

(***************************************************************************)
(* Properties.                                                             *)
(***************************************************************************)
DeleteMultiCalls(cs) == SelectSeq(cs, LAMBDA c : c.op = "DeleteMulti")

\* The keys the keys-only query of Delete returns for the builder b.
DeleteKeys(b, st) == RunQuery(st, QKeysOnly(b.query))

\* ceil(n / ChunkSize)
NumChunks(n) == (n + ChunkSize - 1) \div ChunkSize

\* The j-th chunk of a key list.
ChunkOf(keys, j) == SubSeq(keys, (j - 1) * ChunkSize + 1, Min(j * ChunkSize, Len(keys)))

RECURSIVE Concat(_)
Concat(ss) == IF ss = <<>> THEN <<>> ELSE Head(ss) \o Concat(Tail(ss))

\* What Select() returns on a builder of the pager's shape without a limit.
Unpaginated ==
    Select(ApplyOrders(ApplyFilters(Query(Kind), pager.filters), pager.orders),
           store, NoErr).ret.result.items

\* C1: whenever usingCursor is true, Select() returns the pagination-conflict
\* error and no entities, and issues no backend call, whatever the backend
\* would have answered.
C1_SelectRejectsCursor ==
    qb.usingCursor =>
        \A fail \in ErrInputs :
            LET out == Select(qb, store, fail)
            IN  /\ out.ret.err = ErrUseCursor
                /\ out.ret.result = NilSlice
                /\ out.calls = <<>>

\* Select() has been rejected on a builder that WithCursor has marked.
C1_Witness ==
    /\ qb.usingCursor
    /\ ret.op = "Select"
    /\ ret.err = ErrUseCursor
    /\ calls = <<>>

\* C2: whenever usingOffset is true, SelectWithCursor() returns the
\* pagination-conflict error with nil results and an empty cursor, and issues
\* no backend call.
C2_SelectWithCursorRejectsOffset ==
    qb.usingOffset =>
        \A f \in IterFaults(Len(store)) :
            LET out == SelectWithCursor(qb, store, f.failNext, f.failCursor, f.e)
            IN  /\ out.ret.err = ErrUseOffset
                /\ out.ret.result = NilSlice
                /\ out.ret.cursor = ""
                /\ out.calls = <<>>

\* SelectWithCursor() has been rejected on a builder that WithOffset has marked.
C2_Witness ==
    /\ qb.usingOffset
    /\ ret.op = "SelectWithCursor"
    /\ ret.err = ErrUseOffset
    /\ ret.result = NilSlice
    /\ ret.cursor = ""
    /\ calls = <<>>

\* C3 as stated: usingOffset and usingCursor are never both true.
C3_FlagsExclusive == ~(qb.usingOffset /\ qb.usingCursor)

\* C3 amended: the flags are independent.  usingOffset is true exactly when a
\* positive offset has been applied to the query and usingCursor exactly when
\* a start cursor has been applied, so both are true exactly when both have
\* been applied; in that state Select() and SelectWithCursor() are both
\* rejected.
C3_FlagsIndependent ==
    /\ qb.usingOffset <=> qb.query.offset > 0
    /\ qb.usingCursor <=> qb.query.start # NoCursor
    /\ (qb.usingOffset /\ qb.usingCursor) =>
          /\ \A fail \in ErrInputs : Select(qb, store, fail).ret.err = ErrUseCursor
          /\ \A f \in IterFaults(Len(store)) :
                SelectWithCursor(qb, store, f.failNext, f.failCursor, f.e).ret.err
                    = ErrUseOffset

\* Both flags are true on one builder.
C3_Witness ==
    /\ qb.usingOffset
    /\ qb.usingCursor
    /\ qb.query.offset > 0
    /\ qb.query.start # NoCursor

\* C4: when the k-th call of DeleteMulti fails, Delete returns that error, the
\* calls issued are exactly those for chunks 1..k, every key of chunks 1..k-1
\* is deleted, and the entities of chunks k+1..end are as they were.
C4_DeleteStopsAtFailure ==
    \A keys \in {DeleteKeys(qb, store)} :
        \A f \in DeleteFaults :
            (f.failQuery = NoErr /\ f.failChunk \in 1..NumChunks(Len(keys))) =>
                \A out \in {Delete(qb, store, f.failQuery, f.failChunk, f.e, f.landed)} :
                    \A dm \in {DeleteMultiCalls(out.calls)} :
                        \A k \in {f.failChunk} :
                            /\ out.ret.err = f.e
                            /\ Len(dm) = k
                            /\ \A j \in 1..k : dm[j].keys = ChunkOf(keys, j)
                            /\ \A p \in 1..((k - 1) * ChunkSize) :
                                  ~out.store[keys[p]].live
                            /\ \A p \in (k * ChunkSize + 1)..Len(keys) :
                                  out.store[keys[p]] = store[keys[p]]
                            /\ \A i \in 1..Len(store) :
                                  (\A p \in 1..Len(keys) : keys[p] # i) =>
                                      out.store[i] = store[i]

\* Delete has failed on its second call of DeleteMulti: the first chunk is
\* gone and entities of the second are still there.
C4_Witness ==
    /\ ret.op = "Delete"
    /\ ret.err \in BackendErrors
    /\ Len(calls) = 3
    /\ Len(calls[2].keys) = ChunkSize
    /\ \A p \in 1..ChunkSize : ~store[calls[2].keys[p]].live
    /\ \E p \in 1..Len(calls[3].keys) : store[calls[3].keys[p]].live

\* C5: when the keys-only query returns N keys and no backend call fails,
\* Delete issues exactly ceil(N/500) calls of DeleteMulti and returns no error.
C5_DeleteCallCount ==
    \A out \in {Delete(qb, store, NoErr, 0, "unavailable", FALSE)} :
        \A n \in {Len(DeleteKeys(qb, store))} :
            /\ out.ret.err = NoErr
            /\ Len(DeleteMultiCalls(out.calls)) = NumChunks(n)
            /\ Len(out.calls) = 1 + NumChunks(n)

\* Delete has succeeded with two calls of DeleteMulti, the first one full.
C5_Witness ==
    /\ ret.op = "Delete"
    /\ ret.err = NoErr
    /\ Len(DeleteMultiCalls(calls)) = 2
    /\ Len(calls[2].keys) = ChunkSize
    /\ \A i \in 1..Len(calls[3].keys) : ~store[calls[3].keys[i]].live

\* C6: the pages the pagination example has fetched, one after the other, are
\* the prefix of the unpaginated result in the same order; every page but the
\* last holds exactly limit entities when a limit is set.
C6_CursorRoundTrip ==
    LET got == Concat(pager.pages)
        n == Len(pager.pages)
    IN  /\ got = Take(Unpaginated, Len(got))
        /\ n >= 1 =>
              Len(got) = IF pager.limit > 0
                         THEN Min(n * pager.limit, Len(Unpaginated))
                         ELSE Len(Unpaginated)

\* Two non-empty pages have been fetched, the second through the cursor of
\* the first, and more remains.
C6_Witness ==
    /\ Len(pager.pages) = 2
    /\ pager.pages[1] # <<>>
    /\ pager.pages[2] # <<>>
    /\ pager.pages[1] # pager.pages[2]
    /\ qb.usingCursor
    /\ ret.op = "SelectWithCursor"
    /\ Len(Unpaginated) > Len(Concat(pager.pages))

\* C7: Get() returns the first entity of what Select() returns on the same
\* builder, nil without error when Select() returns none, Select()'s error
\* when it fails, and the pagination-conflict error without a backend call
\* exactly when usingCursor is true.
C7_GetIsFirstOfSelect ==
    \A fail \in ErrInputs :
        LET g == Get(qb, store, fail)
            s == Select(qb, store, fail)
        IN  /\ g.ret.err = s.ret.err
            /\ g.calls = s.calls
            /\ g.ret.entity =
                  IF s.ret.err = NoErr /\ Len(s.ret.result.items) > 0
                  THEN Ptr(s.ret.result.items[1])
                  ELSE NilPtr
            /\ g.ret.err = ErrUseCursor <=> qb.usingCursor
            /\ qb.usingCursor => g.calls = <<>>

\* Get() has returned the first of at least two selected entities that differ.
C7_Witness ==
    /\ ret.op = "Get"
    /\ ret.err = NoErr
    /\ ~ret.entity.isNil
    /\ LET s == Select(qb, store, NoErr).ret.result.items
       IN  /\ Len(s) >= 2
           /\ s[1] # s[Len(s)]
           /\ ret.entity.val = s[1]

\* The tokens WithCursor cannot use: the empty one and those that do not decode.
BadTokens == {tok \in TokenInputs : tok = "" \/ ~DecodeCursor(tok).ok}

\* C8: WithCursor with an empty token or one that fails to decode returns the
\* builder as it was: usingCursor and the start position of the query are
\* not touched.
C8_BadCursorIgnored ==
    \A tok \in BadTokens :
        LET b == WithCursor(qb, tok)
        IN  /\ b = qb
            /\ b.usingCursor = qb.usingCursor
            /\ b.query.start = qb.query.start

\* A configured builder without a cursor, on which WithCursor("") and
\* WithCursor of an undecodable token have no effect.
C8_Witness ==
    /\ ~qb.usingCursor
    /\ qb.query.start = NoCursor
    /\ qb.query.filter # <<>>
    /\ "garbage" \in BadTokens
    /\ WithCursor(qb, "garbage") = qb
    /\ WithCursor(qb, "") = qb

\* C9: WithLimit(n) with n <= 0 returns the builder as it was; a positive
\* limit set before is kept.
C9_NonPositiveLimitIgnored ==
    \A n \in LimitInputs :
        n <= 0 => /\ WithLimit(qb, n) = qb
                  /\ WithLimit(qb, n).limit = qb.limit
                  /\ WithLimit(qb, n).query.limit = qb.query.limit

\* A builder with a positive limit, which WithLimit(0) and WithLimit(-1) keep.
C9_Witness ==
    /\ qb.limit > 0
    /\ qb.query.limit = qb.limit
    /\ WithLimit(qb, 0).limit = qb.limit
    /\ WithLimit(qb, -1).limit = qb.limit

\* C10: WithOffset(n) applies the offset and sets usingOffset exactly when
\* n > 0, returns the builder as it was when n <= 0, and neither reads nor
\* writes usingCursor.
C10_WithOffsetFrame ==
    \A n \in OffsetInputs :
        LET b == WithOffset(qb, n)
            flipped == [qb EXCEPT !.usingCursor = ~@]
        IN  /\ n > 0 => b = [qb EXCEPT !.query.offset = n, !.usingOffset = TRUE]
            /\ n <= 0 => b = qb
            /\ b.usingCursor = qb.usingCursor
            /\ WithOffset(flipped, n) = [b EXCEPT !.usingCursor = ~@]

\* WithOffset has been applied to a builder that WithCursor had marked.
C10_Witness ==
    /\ qb.usingCursor
    /\ qb.usingOffset
    /\ qb.query.offset > 0
    /\ WithOffset(qb, 0) = qb

\* C11: WithFilter on "__key__" with a non-string value returns the builder
\* as it was (no predicate added, nothing reported); with a string value it
\* adds exactly one predicate, whose value is the key (builder's kind, string).
C11_KeyFilterValue ==
    \A v \in KeyValueInputs, operator \in {OpEqual, OpGreater} :
        \A b \in {WithFilter(qb, FieldKey, operator, v)} :
            /\ v.t # "string" => b = qb
            /\ v.t = "string" =>
                  /\ Len(b.query.filter) = Len(qb.query.filter) + 1
                  /\ SubSeq(b.query.filter, 1, Len(qb.query.filter)) = qb.query.filter
                  /\ b.query.filter[Len(b.query.filter)].field = FieldKey
                  /\ b.query.filter[Len(b.query.filter)].op = operator
                  /\ b.query.filter[Len(b.query.filter)].value.t = "key"
                  /\ b.query.filter[Len(b.query.filter)].value.v.kind = qb.kind
                  /\ b.query.filter[Len(b.query.filter)].value.v.name = v.v
                  /\ [b EXCEPT !.query.filter = qb.query.filter] = qb

\* A key filter given as a string has selected the one entity of that key,
\* and a non-string value given now would add nothing.
C11_Witness ==
    /\ Len(store) = 2
    /\ Len(qb.query.filter) = 1
    /\ qb.query.filter[1].field = FieldKey
    /\ qb.query.filter[1].value.t = "key"
    /\ qb.query.filter[1].value.v.name = KeyName(1)
    /\ ret.op = "Select"
    /\ ret.err = NoErr
    /\ ret.result.items = <<Load(store[1])>>
    /\ WithFilter(qb, FieldKey, OpEqual, IntVal(1)) = qb

\* Whether the i-th entity of st satisfies the predicate (key, operator,
\* value) as it was given to WithFilter.
Satisfies(st, i, key, operator, value) ==
    IF key = FieldKey
    THEN IF value.t = "string"
         THEN operator = OpEqual /\ KeyName(i) = value.v
         ELSE TRUE
    ELSE Matches(st, i, [field |-> key, op |-> operator, value |-> value])

\* The entities Select has to return for the rows a builder selects, once
\* the predicate (key, operator, value) is added to it.
Narrowed(st, b, key, operator, value) ==
    Bind(RunQuery(st, b.query), LAMBDA rows :
         Entities(st, SelectSeq(rows, LAMBDA i : Satisfies(st, i, key, operator, value))))

\* C18: with no limit, offset or cursor, Select() on a fresh builder returns
\* every stored entity, and each WithFilter narrows what Select() returns to
\* the entities that satisfy the added predicate as well (AND).
C18_SelectIsConjunction ==
    /\ Select(Query(Kind), store, NoErr).ret.result.items
          = Entities(store, SelectSeq([i \in 1..Len(store) |-> i],
                                      LAMBDA i : store[i].live))
    /\ \A f \in WideFilterInputs :
          Select(WithFilter(qb, f[1], f[2], f[3]), store, NoErr).ret.result.items
              = Narrowed(store, qb, f[1], f[2], f[3])
    /\ (ret.op = "Select" /\ ret.err = NoErr) =>
          ret.result.items =
              Entities(store,
                       SelectSeq([i \in 1..Len(store) |-> i],
                                 LAMBDA i : /\ store[i].live
                                            /\ \A k \in 1..Len(qb.query.filter) :
                                                  Matches(store, i, qb.query.filter[k])))

\* Two filters are set, one of them matching both of two entities, and
\* Select() has returned the only entity that satisfies both.
C18_Witness ==
    /\ Len(store) = 2
    /\ Len(qb.query.filter) = 2
    /\ qb.query.filter[1].field = "age"
    /\ qb.query.filter[1].op = OpGreaterEqual
    /\ qb.query.filter[2].field = "status"
    /\ qb.query.filter[2].op = OpEqual
    /\ ret.op = "Select"
    /\ ret.err = NoErr
    /\ ret.result.items = <<[status |-> "active", age |-> 3]>>

\* The calls of it.Next among the backend calls cs.
NextCalls(cs) == SelectSeq(cs, LAMBDA c : c.op = "Next")

\* C12: when a call of it.Next fails (with an error other than Done) or the
\* call of it.Cursor fails, SelectWithCursor() makes no further backend call
\* and returns that error with nil results and an empty cursor.
C12_NoPartialPage ==
    /\ ~qb.usingOffset =>
          \A rows \in {RunQuery(store, qb.query)} :
          \A f \in IterFaults(Len(store)) :
              (f.failNext \in 1..(Len(rows) + 1) \/ f.failCursor) =>
                  \A out \in {SelectWithCursor(qb, store, f.failNext, f.failCursor, f.e)} :
                      /\ out.ret.err = f.e
                      /\ out.ret.result = NilSlice
                      /\ out.ret.cursor = ""
                      /\ out.calls[Len(out.calls)].op =
                            (IF f.failCursor THEN "Cursor" ELSE "Next")
                      /\ Len(NextCalls(out.calls)) =
                            (IF f.failCursor THEN Len(rows) + 1 ELSE f.failNext)
    /\ (ret.op = "SelectWithCursor" /\ ret.err # NoErr) =>
          /\ ret.result = NilSlice
          /\ ret.cursor = ""

\* SelectWithCursor() has failed on its second call of it.Next, after one
\* entity had been collected, and has returned no entity.
C12_Witness ==
    /\ ret.op = "SelectWithCursor"
    /\ ret.err \in BackendErrors
    /\ Len(NextCalls(calls)) = 2
    /\ calls[Len(calls)].op = "Next"
    /\ Len(RunQuery(store, qb.query)) >= 1
    /\ ret.result = NilSlice
    /\ ret.cursor = ""

\* C13: Total() returns a count without error only when the result map holds
\* an integer-typed value under the count key; when the key is absent or the
\* value is not integer-typed it returns count 0 and an aggregation error.
C13_TotalTypeChecked ==
    \A agg \in AggOutcomes :
        agg.err = NoErr =>
            \A out \in {Total(qb, store, agg)} :
                /\ agg.shape = "integer" => out.ret.err = NoErr
                /\ agg.shape # "integer" =>
                      /\ out.ret.err \in {ErrCountMissing, ErrCountType}
                      /\ out.ret.count = 0

\* The number of stored entities that satisfy every filter of the builder b.
FilterCount(st, b) ==
    Cardinality({i \in 1..Len(st) :
                    /\ st[i].live
                    /\ b.query.ancestor \in {NoKey, NameKey(Kind, KeyName(i))}
                    /\ \A k \in 1..Len(b.query.filter) :
                          Matches(st, i, b.query.filter[k])})

\* C14: whatever orders, limit and offset the builder carries, Total() returns
\* the number of stored entities that satisfy all its filters.
C14_TotalIgnoresPaging ==
    qb.query.start = NoCursor =>
        \A out \in {Total(qb, store, [shape |-> "integer", err |-> NoErr])} :
            /\ out.ret.err = NoErr
            /\ out.ret.count = FilterCount(store, qb)

\* C17: the builder Query() returns has no filters, no orders, limit 0 and
\* both pagination flags false, and Select() and SelectWithCursor() on it are
\* not rejected: they reach the backend.
C17_FreshBuilder ==
    /\ \A b \in {Query(Kind)} :
          /\ b.query.filter = <<>>
          /\ b.query.order = <<>>
          /\ b.limit = 0
          /\ ~b.usingOffset
          /\ ~b.usingCursor
          /\ \A out \in {Select(b, store, NoErr)} :
                out.ret.err = NoErr /\ out.calls # <<>>
          /\ \A out \in {SelectWithCursor(b, store, 0, FALSE, NoErr)} :
                out.ret.err = NoErr /\ out.calls # <<>>
    /\ (qb = Query(Kind) /\ ret.op \in {"Select", "SelectWithCursor"}) =>
          /\ ret.err \notin {ErrUseCursor, ErrUseOffset}
          /\ calls # <<>>

\* SelectWithCursor() on a fresh builder has returned both stored entities.
C17_Witness ==
    /\ qb = Query(Kind)
    /\ ret.op = "SelectWithCursor"
    /\ ret.err = NoErr
    /\ Len(store) = 2
    /\ Len(ret.result.items) = 2

\* Whether the key lists of the DeleteMulti calls dm split keys into
\* consecutive chunks of ChunkSize keys, the last one holding the rest.
ChunksOf(dm, keys) ==
    /\ Concat([j \in 1..Len(dm) |-> dm[j].keys]) = keys
    /\ \A j \in 1..Len(dm) :
          /\ Len(dm[j].keys) \in 1..ChunkSize
          /\ j < Len(dm) => Len(dm[j].keys) = ChunkSize

\* C20: Delete() issues its DeleteMulti calls after the keys-only query, one
\* per consecutive chunk of the key list in list order; every chunk holds at
\* most 500 keys and every chunk but the last exactly 500, so on success
\* every key is in exactly one call.
C20_DeleteChunks ==
    /\ \A keys \in {DeleteKeys(qb, store)} :
          \A out \in {Delete(qb, store, NoErr, 0, "unavailable", FALSE)} :
              /\ out.calls[1].op = "GetAll"
              /\ \A j \in 2..Len(out.calls) : out.calls[j].op = "DeleteMulti"
              /\ ChunksOf(DeleteMultiCalls(out.calls), keys)
              /\ \A p, q \in 1..Len(keys) : keys[p] = keys[q] => p = q
    /\ \A dm \in {DeleteMultiCalls(calls)} :
          \A j \in 1..Len(dm) :
              /\ Len(dm[j].keys) \in 1..ChunkSize
              /\ j < Len(dm) => Len(dm[j].keys) = ChunkSize
              /\ j < Len(dm) => dm[j].keys[ChunkSize] < dm[j + 1].keys[1]

\* Delete() has succeeded with a full chunk followed by a chunk of one key.
C20_Witness ==
    /\ ret.op = "Delete"
    /\ ret.err = NoErr
    /\ Len(calls) = 3
    /\ calls[1].op = "GetAll"
    /\ Len(calls[2].keys) = ChunkSize
    /\ Len(calls[3].keys) = 1
    /\ calls[2].keys[ChunkSize] < calls[3].keys[1]

\* What C16 asks of one run of UpsertMulti on the map items: one PutMulti
\* call that pairs every id of the map with its own entity, no call for the
\* empty map, a rejection that writes nothing above the backend's ceiling
\* and, below it, every entity stored under its id.
OneBulkWrite(b, st, items, fail) ==
    \A out \in {UpsertMulti(b, st, items, fail)} :
        /\ Len(items) = 0 => out.calls = <<>> /\ out.ret.err = NoErr /\ out.store = st
        /\ Len(items) > 0 =>
              /\ Len(out.calls) = 1
              /\ out.calls[1].op = "PutMulti"
              /\ Len(out.calls[1].keys) = Len(items)
              /\ Len(out.calls[1].entities) = Len(items)
              /\ \A p \in 1..Len(items) :
                    /\ out.calls[1].keys[p] = NameKey(b.kind, items[p].id)
                    /\ out.calls[1].entities[p] = items[p].data
        /\ Len(items) > PutMultiLimit =>
              /\ out.ret.err = ErrTooMany
              /\ out.store = st
        /\ (Len(items) \in 1..PutMultiLimit /\ fail = NoErr) =>
              /\ out.ret.err = NoErr
              /\ \A p \in 1..Len(items) :
                    out.store[NameIndex[items[p].id]] = Stored(items[p].data)

\* C16: UpsertMulti with a non-empty map of any size issues exactly one
\* PutMulti call holding every id of the map once, paired with its own
\* entity; it never splits the map, so a map of more than 500 entries is
\* turned down by the backend and nothing is written.
C16_UpsertMultiOneCall ==
    /\ \A fail \in ErrInputs :
          /\ \A n \in BulkSizes, descending \in BOOLEAN :
                OneBulkWrite(qb, store, BulkMap(n, descending), fail)
          /\ \A items \in MapInputs(store) :
                WellFormed(store, items) => OneBulkWrite(qb, store, items, fail)
    /\ ret.op = "UpsertMulti" =>
          /\ Len(calls) <= 1
          /\ \A j \in 1..Len(calls) : calls[j].op = "PutMulti"
          /\ (Len(calls) = 1 /\ Len(calls[1].keys) > PutMultiLimit) =>
                ret.err = ErrTooMany

\* UpsertMulti has handed a map of 501 entries to the backend in one call,
\* the backend has turned it down and the store holds none of them.
C16_Witness ==
    /\ ret.op = "UpsertMulti"
    /\ ret.err = ErrTooMany
    /\ Len(calls) = 1
    /\ Len(calls[1].keys) = PutMultiLimit + 1
    /\ Len(store) <= MaxStore

\* C15: no operation retries.  When a backend call of Select, Get,
\* SelectWithCursor, Total, Upsert, UpsertMulti or Delete fails, the method
\* issues no backend call after it and returns the error of that call.
C15_NoRetry ==
    /\ \A e \in BackendErrors :
          /\ ~qb.usingCursor =>
                /\ \A out \in {Select(qb, store, e)} :
                      out.ret.err = e /\ Len(out.calls) = 1
                /\ \A out \in {Get(qb, store, e)} :
                      out.ret.err = e /\ Len(out.calls) = 1
          /\ \A out \in {Total(qb, store, [shape |-> "integer", err |-> e])} :
                out.ret.err = e /\ Len(out.calls) = 1
          /\ \A id \in IdInputs(store), data \in EntityInputs :
                \A out \in {Upsert(qb, store, id, data, e)} :
                    out.ret.err = e /\ Len(out.calls) = 1
          /\ \A items \in MapInputs(store) :
                (WellFormed(store, items) /\ Len(items) > 0) =>
                    \A out \in {UpsertMulti(qb, store, items, e)} :
                        out.ret.err = e /\ Len(out.calls) = 1
          /\ \A out \in {Delete(qb, store, e, 0, e, FALSE)} :
                out.ret.err = e /\ Len(out.calls) = 1
    /\ \A f \in DeleteFaults :
          (f.failQuery = NoErr
             /\ f.failChunk \in 1..NumChunks(Len(DeleteKeys(qb, store)))) =>
              \A out \in {Delete(qb, store, NoErr, f.failChunk, f.e, f.landed)} :
                  /\ out.ret.err = f.e
                  /\ Len(out.calls) = 1 + f.failChunk
    /\ ~qb.usingOffset =>
          \A rows \in {RunQuery(store, qb.query)} :
          \A f \in IterFaults(Len(store)) :
              (f.failNext \in 1..(Len(rows) + 1) \/ f.failCursor) =>
                  \A out \in {SelectWithCursor(qb, store, f.failNext, f.failCursor, f.e)} :
                      /\ out.ret.err = f.e
                      /\ Len(out.calls) =
                            (IF f.failCursor THEN Len(rows) + 3 ELSE 1 + f.failNext)
    /\ ret.err \in BackendErrors =>
          /\ calls # <<>>
          /\ ret.op \in {"Select", "Get", "Total", "Upsert", "UpsertMulti"} =>
                Len(calls) = 1

\* Upsert has failed: it made its one call of Put and returned the error.
C15_Witness ==
    /\ ret.op = "Upsert"
    /\ ret.err = "context canceled"
    /\ Len(calls) = 1
    /\ calls[1].op = "Put"
    /\ Len(store) = MaxStore

\* Every concurrent call has returned.
AllDone == \A t \in 1..Len(procs) : procs[t].pc = "done"

RECURSIVE InQuery(_, _)
\* Whether the write of call t is part of qb.query after k writes: the k-th
\* writer is t itself, or t's write was part of the query that writer had
\* read.
InQuery(t, k) ==
    IF k = 0 THEN FALSE
    ELSE \A w \in {u \in 1..Len(procs) : procs[u].wroteAt = k} :
             t = w \/ InQuery(t, procs[w].readAt)

\* C19: builder calls on one builder race.  Once all concurrent calls have
\* returned, qb.query is what the last writer derived from the query it had
\* read, so it holds the predicates of exactly those WithFilter calls whose
\* write that chain of reads goes back to: the predicate of a call whose
\* write fell between the read and the write of a later writer is missing.
C19_LostUpdate ==
    AllDone =>
        /\ \A t \in 1..Len(procs) :
              procs[t].wroteAt = Len(procs) =>
                  qb.query = Derived(procs[t].local, procs[t].call)
        /\ Len(qb.query.filter) =
              Cardinality({t \in 1..Len(procs) :
                              procs[t].call.op = "WithFilter" /\ InQuery(t, Len(procs))})
        /\ \A t \in 1..Len(procs) :
              (procs[t].call.op = "WithFilter" /\ InQuery(t, Len(procs))) =>
                  \E k \in 1..Len(qb.query.filter) :
                      /\ qb.query.filter[k].field = procs[t].call.key
                      /\ qb.query.filter[k].op = procs[t].call.operator
        /\ \A t \in 1..Len(procs) :
              (\E u \in 1..Len(procs) :
                  /\ procs[u].wroteAt = Len(procs)
                  /\ procs[t].wroteAt < Len(procs)
                  /\ procs[u].readAt < procs[t].wroteAt) => ~InQuery(t, Len(procs))

\* Two WithFilter calls with different predicates have both returned and
\* the builder holds only one of the two predicates.
C19_Witness ==
    /\ Len(procs) >= 2
    /\ AllDone
    /\ procs[1].call.op = "WithFilter"
    /\ procs[2].call.op = "WithFilter"
    /\ procs[1].call.key # procs[2].call.key
    /\ Len(qb.query.filter) = 1

\* Tokens that decode to a cursor.
GoodTokens == TokenInputs \ BadTokens

\* C21: WithOffset(n) with n > 0 and WithCursor(valid token), applied to one
\* builder in either order, leave both flags true; on a builder with both
\* flags true Select, Get and SelectWithCursor return a pagination-conflict
\* error without a backend call, while Total and Delete check neither flag
\* and still issue their backend call.
C21_BothFlagsBlockReads ==
    /\ \A n \in OffsetInputs, tok \in GoodTokens :
          n > 0 =>
             \A oc \in {WithCursor(WithOffset(qb, n), tok)} :
             \A co \in {WithOffset(WithCursor(qb, tok), n)} :
                /\ oc.usingOffset /\ oc.usingCursor
                /\ co.usingOffset /\ co.usingCursor
                /\ Select(oc, store, NoErr).ret.err = ErrUseCursor
                /\ Select(co, store, NoErr).ret.err = ErrUseCursor
    /\ (qb.usingOffset /\ qb.usingCursor) =>
          /\ \A fail \in ErrInputs :
                /\ \A out \in {Select(qb, store, fail)} :
                      /\ out.ret.err = ErrUseCursor
                      /\ out.ret.result = NilSlice
                      /\ out.calls = <<>>
                /\ \A out \in {Get(qb, store, fail)} :
                      /\ out.ret.err = ErrUseCursor
                      /\ out.ret.entity = NilPtr
                      /\ out.calls = <<>>
          /\ \A f \in IterFaults(Len(store)) :
                \A out \in {SelectWithCursor(qb, store, f.failNext, f.failCursor, f.e)} :
                   /\ out.ret.err = ErrUseOffset
                   /\ out.ret.result = NilSlice
                   /\ out.calls = <<>>
          /\ \A agg \in AggOutcomes :
                \A out \in {Total(qb, store, agg)} :
                   /\ out.calls # <<>>
                   /\ out.ret.err \notin {ErrUseCursor, ErrUseOffset}
          /\ \A out \in {Delete(qb, store, NoErr, 0, "unavailable", FALSE)} :
                /\ out.calls # <<>>
                /\ out.calls[1].op = "GetAll"
                /\ out.ret.err = NoErr
          /\ ret.op \in {"Select", "Get"} => ret.err = ErrUseCursor /\ calls = <<>>
          /\ ret.op = "SelectWithCursor" => ret.err = ErrUseOffset /\ calls = <<>>
          /\ ret.op = "Total" => calls # <<>>

C21_Witness ==
    /\ qb.usingOffset
    /\ qb.usingCursor
    /\ ret.op = "Get"
    /\ ret.err = ErrUseCursor
    /\ ret.entity = NilPtr
    /\ calls = <<>>

\* The positive limits tried on every builder reached (one above the inputs
\* of WithLimitCall, so that a positive limit is replaced by another one).
PositiveLimits == 1..(MaxLimit + 1)

\* C22: over every step taken on one builder (a step of Query makes a new
\* one), by a builder method or an execution method, usingOffset and
\* usingCursor never go from true to false, limit is never negative and never
\* goes from positive to zero, limit changes only in a step of WithLimit with
\* a positive argument and is then that argument, and WithLimit(n) with
\* n > 0 always leaves limit = n.
C22_Monotonic ==
    /\ [](/\ qb.limit >= 0
          /\ qb.limit > 0 => qb.query.limit = qb.limit
          /\ \A n \in PositiveLimits :
                \A b \in {WithLimit(qb, n)} :
                   b.limit = n /\ b.query.limit = n
          /\ \A n \in LimitInputs :
                n <= 0 => WithLimit(qb, n) = qb
          /\ \A n \in OffsetInputs, tok \in TokenInputs, fld \in OrderInputs :
                \A b \in {WithOffset(qb, n), WithCursor(qb, tok), WithDistinct(qb),
                          WithOrder(qb, fld), WithOrderDesc(qb, fld), KeysOnly(qb)} :
                   /\ b.limit = qb.limit
                   /\ qb.usingOffset => b.usingOffset
                   /\ qb.usingCursor => b.usingCursor)
    /\ [][ \/ qb' = Query(Kind)
           \/ /\ qb.usingOffset => qb'.usingOffset
              /\ qb.usingCursor => qb'.usingCursor
              /\ qb.limit > 0 => qb'.limit > 0
              /\ qb'.limit # qb.limit =>
                    \E n \in LimitInputs :
                       n > 0 /\ qb' = WithLimit(qb, n) /\ qb'.limit = n
         ]_vars

C22_Witness ==
    /\ qb.usingOffset
    /\ qb.usingCursor
    /\ qb.limit = MaxLimit
    /\ qb.query.limit = MaxLimit
    /\ ret.op = "Total"
    /\ ret.err = NoErr

\* The execution methods, by name.
ExecMethods ==
    {"Select", "Get", "SelectWithCursor", "Total", "Upsert", "UpsertMulti", "Delete"}

\* The pagination-conflict error in e, or none.
Conflict(e) == IF e \in {ErrUseCursor, ErrUseOffset} THEN e ELSE NoErr

\* The pagination-conflict verdict of a method on builder b: the conflict
\* error it returns, or none.
Verdict(b, st, method) ==
    CASE method = "Select" -> Conflict(Select(b, st, NoErr).ret.err)
      [] method = "Get" -> Conflict(Get(b, st, NoErr).ret.err)
      [] method = "SelectWithCursor" ->
            Conflict(SelectWithCursor(b, st, 0, FALSE, "unavailable").ret.err)
      [] method = "Total" ->
            Conflict(Total(b, st, [shape |-> "integer", err |-> NoErr]).ret.err)
      [] method = "Delete" ->
            Conflict(Delete(b, st, NoErr, 0, "unavailable", FALSE).ret.err)
      [] OTHER -> NoErr

\* C23: every step of Select, Get, SelectWithCursor, Total, Upsert,
\* UpsertMulti or Delete, up to and including its return, failed or not, leaves the builder (query, limit, usingOffset,
\* usingCursor) as it was, and the same method run again on the builder after
\* the step gives the pagination-conflict verdict the step gave.
C23_ExecutionFrame ==
    [][ /\ (ret'.op \in ExecMethods \/ run.op # "none" \/ run'.op # "none") =>
              qb' = qb
        /\ ret'.op \in ExecMethods =>
              /\ Conflict(ret'.err) = Verdict(qb, store, ret'.op)
              /\ Verdict(qb', store', ret'.op) = Conflict(ret'.err)
      ]_vars

C23_Witness ==
    /\ ret.op = "Delete"
    /\ ret.err = NoErr
    /\ Len(calls) >= 1
    /\ qb.usingOffset
    /\ qb.usingCursor
    /\ ~qb.query.keysOnly
    /\ Verdict(qb, store, "Select") = ErrUseCursor

\* C24: Delete issues DeleteMulti only after its keys-only query has
\* succeeded with at least one key. When the query fails Delete returns that
\* error, has issued the query alone and leaves the store as it was; when the
\* query returns no key Delete issues the query alone, leaves the store as
\* it was and returns no error, whatever DeleteMulti would have done; and in
\* every run the query is the first call and each call after it is a
\* DeleteMulti of at least one key.
C24_DeleteAfterKeys ==
    /\ \A err \in BackendErrors :
          \A out \in {Delete(qb, store, err, 0, "unavailable", FALSE)} :
             /\ out.ret.err = err
             /\ out.calls = <<Call("GetAll", <<>>)>>
             /\ out.store = store
    /\ \A keys \in {DeleteKeys(qb, store)} :
          keys = <<>> =>
             \A f \in DeleteFaults :
                f.failQuery = NoErr =>
                   \A out \in {Delete(qb, store, f.failQuery, f.failChunk, f.e, f.landed)} :
                      /\ out.ret.err = NoErr
                      /\ out.calls = <<Call("GetAll", <<>>)>>
                      /\ out.store = store
    /\ ret.op = "Delete" =>
          /\ calls # <<>>
          /\ calls[1] = Call("GetAll", <<>>)
          /\ \A k \in 2..Len(calls) :
                calls[k].op = "DeleteMulti" /\ calls[k].keys # <<>>
          /\ (Len(calls) = 1 /\ ret.err = NoErr) => DeleteKeys(qb, store) = <<>>

C24_Witness ==
    /\ ret.op = "Delete"
    /\ ret.err \in BackendErrors
    /\ calls = <<Call("GetAll", <<>>)>>
    /\ Len(DeleteKeys(qb, store)) > ChunkSize

====
